---- MODULE Spec2Model ----
(***************************************************************************)
(* Medicine reminder bot: the PostgreSQL repository (Storage), the dialog  *)
(* state machine of the inbound-event loop (Bot.HandleUpdates and its      *)
(* handlers) and the polling scheduler (StartScheduler).                   *)
(*                                                                         *)
(* Texts are sequences of one-character strings, so that TrimSpace, Atoi,  *)
(* HasPrefix, Split and Sprintf are computed and not assumed.              *)
(***************************************************************************)
EXTENDS Integers, Sequences, FiniteSets, TLC

VARIABLES
    users,          \* table users: chat_id -> active (DOMAIN = the rows that exist)
    reminders,      \* table reminders: a set of rows
    nextID,         \* the SERIAL sequence of reminders.id
    pending,        \* Bot.pending: chat_id -> PendingReminder (DOMAIN = the keys of the map)
    evpc,           \* position of the inbound-event loop: idle, or inside IncrementDoseTaken
    out,            \* the notifier calls of the event being handled: <<chat_id, kind>>
    now,            \* the wall clock in the scheduler's zone: <<hour, minute>>
    lastSentTime,   \* StartScheduler's local lastSentTime
    spc,            \* position of the scheduler loop: "wait" (on the ticker) or "send"
    due,            \* the map returned by GetRemindersForTime, minus the pairs already sent
    curUser,        \* the key the outer range loop is at (0: none)
    tick,           \* history of the scheduler: what the last tick observed, queried and sent
    adminID,        \* Bot.adminID, from ADMIN_ID (0: not set)
    api,            \* the reminders of the last response of GET /api/reminders
    ev,             \* history: the update the inbound-event loop took last
    hist            \* history: chat_id -> the inputs of the user since /add, while they
                    \*          follow the dialog step by step (<<>> otherwise)

vars ==
    <<users, reminders, nextID, pending, evpc, out, now, lastSentTime, spc, due, curUser, tick,
      adminID, api, ev, hist>>

repoVars == <<users, reminders, nextID>>
schedVars == <<now, lastSentTime, spc, due, curUser, tick>>

-----------------------------------------------------------------------------
(* Bounds of the model *)

\* reminders.id values the SERIAL sequence may hand out
MaxReminders == 1
\* cap of doses_taken for the guards (an unbounded course counts for ever)
MaxDoses == 2

ChatIDs == {1, 2}
MsgIDs == {1}

-----------------------------------------------------------------------------
(* Strings *)

Min(a, b) == IF a < b THEN a ELSE b

IsDigit(c) == c \in {"0", "1", "2", "3", "4", "5", "6", "7", "8", "9"}

DigitVal(c) ==
    CASE c = "0" -> 0 [] c = "1" -> 1 [] c = "2" -> 2 [] c = "3" -> 3 [] c = "4" -> 4
      [] c = "5" -> 5 [] c = "6" -> 6 [] c = "7" -> 7 [] c = "8" -> 8 [] c = "9" -> 9

DigitChar(d) ==
    CASE d = 0 -> "0" [] d = 1 -> "1" [] d = 2 -> "2" [] d = 3 -> "3" [] d = 4 -> "4"
      [] d = 5 -> "5" [] d = 6 -> "6" [] d = 7 -> "7" [] d = 8 -> "8" [] d = 9 -> "9"

IsSpace(c) == c \in {" ", "\t", "\n"}

RECURSIVE TrimLeft(_)
TrimLeft(s) == IF s /= <<>> /\ IsSpace(Head(s)) THEN TrimLeft(Tail(s)) ELSE s

RECURSIVE TrimRight(_)
TrimRight(s) ==
    IF s /= <<>> /\ IsSpace(s[Len(s)]) THEN TrimRight(SubSeq(s, 1, Len(s) - 1)) ELSE s

\* strings.TrimSpace
TrimSpace(s) == TrimRight(TrimLeft(s))

\* strings.HasPrefix
HasPrefix(s, p) == Len(s) >= Len(p) /\ SubSeq(s, 1, Len(p)) = p

\* strings.TrimPrefix
TrimPrefix(s, p) == IF HasPrefix(s, p) THEN SubSeq(s, Len(p) + 1, Len(s)) ELSE s

\* strings.Contains
Contains(s, p) ==
    \E i \in 1..(Len(s) + 1) : i + Len(p) - 1 <= Len(s) /\ SubSeq(s, i, i + Len(p) - 1) = p

\* strings.Split(s, ":")
RECURSIVE SplitColon(_, _)
SplitColon(s, acc) ==
    IF s = <<>> THEN <<acc>>
    ELSE IF Head(s) = ":" THEN <<acc>> \o SplitColon(Tail(s), <<>>)
    ELSE SplitColon(Tail(s), Append(acc, Head(s)))

Split(s) == SplitColon(s, <<>>)

RECURSIVE DigitsValue(_, _)
DigitsValue(s, acc) ==
    IF s = <<>> THEN acc ELSE DigitsValue(Tail(s), acc * 10 + DigitVal(Head(s)))

\* strconv.Atoi: an optional sign and then one or more decimal digits; anything
\* else is a syntax error, with value 0
Atoi(s) ==
    LET signed == s /= <<>> /\ Head(s) \in {"+", "-"}
        body == IF signed THEN Tail(s) ELSE s
        good == body /= <<>> /\ \A i \in 1..Len(body) : IsDigit(body[i])
        mag == IF good THEN DigitsValue(body, 0) ELSE 0
    IN  [err |-> ~good,
         val |-> IF signed /\ Head(s) = "-" THEN 0 - mag ELSE mag]

\* "%d" of fmt.Sprintf, for a number that is not negative
RECURSIVE Itoa(_)
Itoa(n) == IF n < 10 THEN <<DigitChar(n)>> ELSE Append(Itoa(n \div 10), DigitChar(n % 10))

\* "%02d" of fmt.Sprintf, for a number that is not negative
Pad2(n) == IF n < 10 THEN <<"0">> \o Itoa(n) ELSE Itoa(n)

-----------------------------------------------------------------------------
(* Reminder and the dialog states *)

StateNone == "none"
StateWaitingMedicine == "waiting_medicine"
StateWaitingHour == "waiting_hour"
StateWaitingMinute == "waiting_minute"
StateWaitingCourse == "waiting_course"
StateWaitingCustomCourse == "waiting_custom_course"

\* Reminder.IsCompleted
IsCompleted(r) == r.CourseDays > 0 /\ r.DosesTaken >= r.CourseDays

\* Reminder.TimeString
TimeString(r) == Pad2(r.Hour) \o <<":">> \o Pad2(r.Minute)

\* Reminder.CourseString
CourseString(r) ==
    IF r.CourseDays = 0 THEN Itoa(r.DosesTaken) \o <<"/", "inf">>
    ELSE Itoa(r.DosesTaken) \o <<"/">> \o Itoa(r.CourseDays)

\* rows.Scan(&r.ID, &r.Medicine, ...): a row of table reminders as a Reminder
ScanReminder(row) ==
    [ID |-> row.id, Medicine |-> row.medicine, Hour |-> row.hour, Minute |-> row.minute,
     CourseDays |-> row.course_days, DosesTaken |-> row.doses_taken]

-----------------------------------------------------------------------------
(* Storage: each operator is one SQL statement on the tables *)

\* INSERT INTO users (chat_id, active) VALUES ($1, true) ON CONFLICT DO NOTHING
GetOrCreateUser(us, chatID) ==
    IF chatID \in DOMAIN us THEN us
    ELSE [c \in DOMAIN us \cup {chatID} |-> IF c = chatID THEN TRUE ELSE us[c]]

\* UPDATE users SET active = $1 WHERE chat_id = $2
SetUserActive(us, chatID, active) ==
    [c \in DOMAIN us |-> IF c = chatID THEN active ELSE us[c]]

\* INSERT INTO reminders (chat_id, medicine, hour, minute, course_days) ... RETURNING id;
\* doses_taken takes its DEFAULT 0
AddReminder(rems, id, chatID, medicine, hour, minute, courseDays) ==
    rems \cup {[id |-> id, chat_id |-> chatID, medicine |-> medicine, hour |-> hour,
                minute |-> minute, course_days |-> courseDays, doses_taken |-> 0]}

\* a DELETE that looks at the id only
DeleteReminder_AnyOwner(rems, chatID, reminderID) ==
    {row \in rems : row.id /= reminderID}

\* DELETE FROM reminders WHERE id = $1 AND chat_id = $2
DeleteReminder(rems, chatID, reminderID) ==
    {row \in rems : ~(row.id = reminderID /\ row.chat_id = chatID)}

\* the rows UPDATE ... WHERE id = $1 AND chat_id = $2 of IncrementDoseTaken touches
IncrementTarget(rems, chatID, reminderID) ==
    {row \in rems : row.id = reminderID /\ row.chat_id = chatID}

\* an update that counts a dose twice
IncrementUpdate_Twice(rems, chatID, reminderID) ==
    {IF row.id = reminderID /\ row.chat_id = chatID
       THEN [row EXCEPT !.doses_taken = row.doses_taken + 2]
       ELSE row : row \in rems}

\* UPDATE reminders SET doses_taken = doses_taken + 1 WHERE id = $1 AND chat_id = $2
IncrementUpdate(rems, chatID, reminderID) ==
    {IF row.id = reminderID /\ row.chat_id = chatID
       THEN [row EXCEPT !.doses_taken = row.doses_taken + 1]
       ELSE row : row \in rems}

\* the orders in which a query may hand out the rows of S
Orders(S) ==
    {q \in [1..Cardinality(S) -> S] : \A i, j \in 1..Cardinality(S) : q[i] = q[j] => i = j}

\* ORDER BY hour, minute
SortedByTime(q) ==
    \A i, j \in 1..Len(q) :
        i < j => (q[i].hour < q[j].hour \/ (q[i].hour = q[j].hour /\ q[i].minute <= q[j].minute))

\* Storage.GetReminders: the results the query may give (rows of equal time come in any order)
GetReminders(rems, chatID) ==
    {[i \in 1..Len(q) |-> ScanReminder(q[i])] :
        q \in {o \in Orders({row \in rems : row.chat_id = chatID}) : SortedByTime(o)}}

\* a query that leaves out the condition on the course: it hands out finished courses too
DueRows_AnyCourse(us, rems, hour, minute) ==
    {row \in rems :
        /\ row.chat_id \in DOMAIN us
        /\ row.hour = hour /\ row.minute = minute
        /\ us[row.chat_id] = TRUE}

\* a query that leaves out u.active = true: it hands out the reminders of stopped users too
DueRows_AnyUser(us, rems, hour, minute) ==
    {row \in rems :
        /\ row.chat_id \in DOMAIN us
        /\ row.hour = hour /\ row.minute = minute
        /\ (row.course_days = 0 \/ row.doses_taken < row.course_days)}

\* the rows selected by GetRemindersForTime: reminders JOIN users WHERE r.hour = $1 AND
\* r.minute = $2 AND u.active = true AND (r.course_days = 0 OR r.doses_taken < r.course_days)
DueRows(us, rems, hour, minute) ==
    {row \in rems :
        /\ row.chat_id \in DOMAIN us
        /\ row.hour = hour /\ row.minute = minute
        /\ us[row.chat_id] = TRUE
        /\ (row.course_days = 0 \/ row.doses_taken < row.course_days)}

\* the loop of GetRemindersForTime: result[chatID] = append(result[chatID], r)
RECURSIVE ScanDue(_, _)
ScanDue(q, result) ==
    IF q = <<>> THEN result
    ELSE LET row == Head(q)
             c == row.chat_id
             old == IF c \in DOMAIN result THEN result[c] ELSE <<>>
         IN  ScanDue(Tail(q),
                     [k \in DOMAIN result \cup {c} |->
                         IF k = c THEN Append(old, ScanReminder(row)) ELSE result[k]])

EmptyMap == [k \in {} |-> <<>>]

\* Storage.GetRemindersForTime: the maps the query may give
GetRemindersForTime(us, rems, hour, minute) ==
    {ScanDue(q, EmptyMap) : q \in Orders(DueRows(us, rems, hour, minute))}

-----------------------------------------------------------------------------
(* Texts of the messages and callback payloads *)

\* commands
CmdStart == <<"s", "t", "a", "r", "t">>
CmdAdd == <<"a", "d", "d">>
CmdList == <<"l", "i", "s", "t">>
CmdStop == <<"s", "t", "o", "p">>
CmdDonate == <<"d", "o", "n", "a", "t", "e">>
CmdStats == <<"s", "t", "a", "t", "s">>
CmdNotify == <<"n", "o", "t", "i", "f", "y">>

\* the words HandleUpdates looks for in the text of a reply button (transliterated)
WordAdd == <<"D", "o", "b", "a", "v", "i", "t">>
WordList == <<"n", "a", "p", "o", "m", "i", "n", "a", "n", "i", "y", "a">>
WordStop == <<"O", "t", "k", "l", "y", "u", "c", "h", "i", "t">>
WordStart == <<"V", "k", "l", "y", "u", "c", "h", "i", "t">>
WordHello == <<"p", "r", "i", "v", "e", "t">>

\* prefixes of the callback data
PrefHour == <<"h", "o", "u", "r", "_">>
PrefTime == <<"t", "i", "m", "e", "_">>
PrefDel == <<"d", "e", "l", "_">>
PrefCourse == <<"c", "o", "u", "r", "s", "e", "_">>
PrefTaken == <<"t", "a", "k", "e", "n", "_">>
PrefStars == <<"s", "t", "a", "r", "s", "_">>
DataCustom == <<"c", "u", "s", "t", "o", "m">>
DataCancel == <<"c", "a", "n", "c", "e", "l">>

\* strings.ToLower on the letters of the texts used here
LowerChar(c) == CASE c = "P" -> "p" [] c = "R" -> "r" [] c = "I" -> "i" [] c = "V" -> "v"
                  [] c = "E" -> "e" [] c = "T" -> "t" [] OTHER -> c

ToLower(s) == [i \in 1..Len(s) |-> LowerChar(s[i])]

\* Message.IsCommand: the text starts with a bot_command entity
IsCommand(text) == Len(text) > 1 /\ text[1] = "/"

RECURSIVE CommandWord(_)
CommandWord(s) ==
    IF s = <<>> \/ IsSpace(Head(s)) \/ Head(s) = "@" THEN <<>>
    ELSE <<Head(s)>> \o CommandWord(Tail(s))

\* Message.Command: the command without the slash and without @bot
Command(text) == CommandWord(Tail(text))

-----------------------------------------------------------------------------
(* Bot.pending *)

\* a map that forgets nothing
MapDelete_Keep(m, k) == m

\* delete(b.pending, chatID)
MapDelete(m, k) == [c \in DOMAIN m \ {k} |-> m[c]]

MapPut(m, k, v) == [c \in DOMAIN m \cup {k} |-> IF c = k THEN v ELSE m[c]]

\* an entry that waits for nothing
NewPending_None ==
    [State |-> StateNone, Medicine |-> <<>>, Hour |-> 0, Minute |-> 0, MsgID |-> 0]

\* &PendingReminder{State: StateWaitingMedicine}
NewPending ==
    [State |-> StateWaitingMedicine, Medicine |-> <<>>, Hour |-> 0, Minute |-> 0, MsgID |-> 0]

\* HandleUpdates: state := StateNone; if pending != nil { state = pending.State }
StateOf(pend, chatID) == IF chatID \in DOMAIN pend THEN pend[chatID].State ELSE StateNone

\* a check that looks for the entry only
Inconsistent_NilOnly(pend, chatID) == chatID \notin DOMAIN pend

\* p == nil || p.Medicine == ""
Inconsistent(pend, chatID) == chatID \notin DOMAIN pend \/ pend[chatID].Medicine = <<>>

Idle == [pc |-> "idle"]

-----------------------------------------------------------------------------
(* History of the inbound events *)

NoEvent == [chatID |-> 0, kind |-> "none", payload |-> <<>>, state |-> StateNone]

\* whether input e comes next in a dialog that has seen the inputs h: /add, a name,
\* an hour button, a time button, a course button and, after "custom", the days
FitsRun(h, e) ==
    CASE Len(h) = 1 -> e.kind = "message" /\ ~IsCommand(e.payload)
                         /\ TrimSpace(e.payload) /= <<>>
      [] Len(h) = 2 -> e.kind = "callback" /\ HasPrefix(e.payload, PrefHour)
      [] Len(h) = 3 -> e.kind = "callback" /\ HasPrefix(e.payload, PrefTime)
      [] Len(h) = 4 -> e.kind = "callback" /\ HasPrefix(e.payload, PrefCourse)
      [] Len(h) = 5 -> h[5].payload = PrefCourse \o DataCustom
                         /\ e.kind = "message" /\ ~IsCommand(e.payload)
      [] OTHER -> FALSE

RunStep(h, e) ==
    IF e.kind = "message" /\ IsCommand(e.payload)
      THEN IF Command(e.payload) = CmdAdd THEN <<e>> ELSE <<>>
      ELSE IF h /= <<>> /\ FitsRun(h, e) THEN Append(h, e) ELSE <<>>

\* the loop takes an update of chatID; state is what HandleUpdates reads from b.pending
Observe(chatID, kind, payload) ==
    LET e == [kind |-> kind, payload |-> payload]
    IN  /\ ev' = [chatID |-> chatID, kind |-> kind, payload |-> payload,
                  state |-> StateOf(pending, chatID)]
        /\ hist' = [hist EXCEPT ![chatID] = RunStep(hist[chatID], e)]

-----------------------------------------------------------------------------
(* The handlers of the inbound-event loop.  pend is b.pending as the handler   *)
(* finds it; db tells whether the repository answers during this event.       *)

\* a /start that begins the courses of the user anew
handleStart_Restart(pend, chatID, db) ==
    /\ users' = IF db THEN SetUserActive(GetOrCreateUser(users, chatID), chatID, TRUE) ELSE users
    /\ reminders' = {IF row.chat_id = chatID THEN [row EXCEPT !.doses_taken = 0] ELSE row :
                        row \in reminders}
    /\ pending' = pend
    /\ out' = <<<<chatID, "Welcome">>>>
    /\ UNCHANGED <<nextID, evpc>>

\* Bot.handleStart
handleStart(pend, chatID, db) ==
    /\ users' = IF db THEN SetUserActive(GetOrCreateUser(users, chatID), chatID, TRUE) ELSE users
    /\ pending' = pend
    /\ out' = <<<<chatID, "Welcome">>>>
    /\ UNCHANGED <<reminders, nextID, evpc>>

\* an add that also switches the reminders of the user on
handleAdd_Activate(pend, chatID, db) ==
    /\ users' = IF db THEN SetUserActive(GetOrCreateUser(users, chatID), chatID, TRUE) ELSE users
    /\ pending' = MapPut(pend, chatID, NewPending)
    /\ out' = <<<<chatID, "AskMedicine">>>>
    /\ UNCHANGED <<reminders, nextID, evpc>>

\* Bot.handleAdd
handleAdd(pend, chatID, db) ==
    /\ users' = IF db THEN GetOrCreateUser(users, chatID) ELSE users
    /\ pending' = MapPut(pend, chatID, NewPending)
    /\ out' = <<<<chatID, "AskMedicine">>>>
    /\ UNCHANGED <<reminders, nextID, evpc>>

\* a handler that takes a blank name too
handleMedicineInput_AnyName(pend, chatID, text) ==
    /\ pending' = IF chatID \in DOMAIN pend
                     THEN [pend EXCEPT ![chatID].Medicine = TrimSpace(text),
                                       ![chatID].State = StateWaitingHour]
                     ELSE pend
    /\ out' = <<<<chatID, "AskHour">>>>
    /\ UNCHANGED <<users, reminders, nextID, evpc>>

\* a handler that stores the name as it was typed
handleMedicineInput_Untrimmed(pend, chatID, text) ==
    /\ IF TrimSpace(text) = <<>>
         THEN /\ pending' = pend
              /\ out' = <<<<chatID, "EmptyName">>>>
         ELSE /\ pending' = IF chatID \in DOMAIN pend
                              THEN [pend EXCEPT ![chatID].Medicine = text,
                                                ![chatID].State = StateWaitingHour]
                              ELSE pend
              /\ out' = <<<<chatID, "AskHour">>>>
    /\ UNCHANGED <<users, reminders, nextID, evpc>>

\* Bot.handleMedicineInput
handleMedicineInput(pend, chatID, text) ==
    LET medicine == TrimSpace(text)
    IN  /\ IF medicine = <<>>
             THEN /\ pending' = pend
                  /\ out' = <<<<chatID, "EmptyName">>>>
             ELSE /\ pending' = IF chatID \in DOMAIN pend
                                  THEN [pend EXCEPT ![chatID].Medicine = medicine,
                                                    ![chatID].State = StateWaitingHour]
                                  ELSE pend
                  /\ out' = <<<<chatID, "AskHour">>>>
        /\ UNCHANGED <<users, reminders, nextID, evpc>>

\* Bot.handleHourSelected
handleHourSelected(pend, chatID, messageID, hour) ==
    /\ IF Inconsistent(pend, chatID)
         THEN /\ pending' = pend
              /\ out' = <<<<chatID, "DeleteMessage">>, <<chatID, "RetryAdd">>>>
         ELSE /\ pending' = [pend EXCEPT ![chatID].Hour = hour,
                                         ![chatID].State = StateWaitingMinute]
              /\ out' = <<<<chatID, "AskMinute">>>>
    /\ UNCHANGED <<users, reminders, nextID, evpc>>

\* Bot.handleTimeSelected
handleTimeSelected(pend, chatID, messageID, hour, minute) ==
    /\ IF Inconsistent(pend, chatID)
         THEN /\ pending' = pend
              /\ out' = <<<<chatID, "DeleteMessage">>, <<chatID, "RetryAdd">>>>
         ELSE /\ pending' = [pend EXCEPT ![chatID].Hour = hour,
                                         ![chatID].Minute = minute,
                                         ![chatID].State = StateWaitingCourse]
              /\ out' = <<<<chatID, "AskCourse">>>>
    /\ UNCHANGED <<users, reminders, nextID, evpc>>

\* b.storage.AddReminder of a handler: the INSERT fails when the repository does not
\* answer and when chat_id has no row in users (REFERENCES users(chat_id))
AddFails(chatID, db) == ~db \/ chatID \notin DOMAIN users

\* a final step that stores the reminder and leaves the user as they are
PersistPending_NoActivate(pend, chatID, courseDays, db, okOut) ==
    LET p == pend[chatID]
    IN  /\ pending' = MapDelete(pend, chatID)
        /\ IF AddFails(chatID, db)
             THEN /\ out' = <<<<chatID, "SaveError">>>>
                  /\ UNCHANGED <<users, reminders, nextID>>
             ELSE /\ nextID <= MaxReminders
                  /\ reminders' = AddReminder(reminders, nextID, chatID, p.Medicine, p.Hour,
                                              p.Minute, courseDays)
                  /\ nextID' = nextID + 1
                  /\ users' = users
                  /\ out' = okOut

\* the part of handleCourseSelected and handleCustomCourseInput after the checks:
\* delete(b.pending, chatID); AddReminder; SetUserActive(chatID, true); the confirmation
PersistPending(pend, chatID, courseDays, db, okOut) ==
    LET p == pend[chatID]
    IN  /\ pending' = MapDelete(pend, chatID)
        /\ IF AddFails(chatID, db)
             THEN /\ out' = <<<<chatID, "SaveError">>>>
                  /\ UNCHANGED <<users, reminders, nextID>>
             ELSE /\ nextID <= MaxReminders
                  /\ reminders' = AddReminder(reminders, nextID, chatID, p.Medicine, p.Hour,
                                              p.Minute, courseDays)
                  /\ nextID' = nextID + 1
                  /\ users' = SetUserActive(users, chatID, TRUE)
                  /\ out' = okOut

\* Bot.handleCourseSelected
handleCourseSelected(pend, chatID, messageID, courseDays, db) ==
    /\ IF Inconsistent(pend, chatID)
         THEN /\ pending' = pend
              /\ out' = <<<<chatID, "DeleteMessage">>, <<chatID, "RetryAdd">>>>
              /\ UNCHANGED <<users, reminders, nextID>>
         ELSE PersistPending(pend, chatID, courseDays, db,
                             <<<<chatID, "DeleteMessage">>, <<chatID, "Added">>>>)
    /\ UNCHANGED evpc

\* courseDays < 1 || courseDays > 365 of handleCustomCourseInput
MinCourseDays == 1
MaxCourseDays == 365

\* a check that takes every integer
BadCourseDays_AnyInteger(text) == Atoi(TrimSpace(text)).err

\* err != nil || courseDays < 1 || courseDays > 365
BadCourseDays(text) ==
    LET n == Atoi(TrimSpace(text))
    IN  n.err \/ n.val < MinCourseDays \/ n.val > MaxCourseDays

\* Bot.handleCustomCourseInput
handleCustomCourseInput(pend, chatID, text, db) ==
    /\ IF BadCourseDays(text)
         THEN /\ pending' = pend
              /\ out' = <<<<chatID, "BadNumber">>>>
              /\ UNCHANGED <<users, reminders, nextID>>
         ELSE IF Inconsistent(pend, chatID)
         THEN /\ pending' = pend
              /\ out' = <<<<chatID, "RetryAdd">>>>
              /\ UNCHANGED <<users, reminders, nextID>>
         ELSE PersistPending(pend, chatID, Atoi(TrimSpace(text)).val, db,
                             <<<<chatID, "Added">>>>)
    /\ UNCHANGED evpc

\* a list that ends the dialog of the user
handleList_EndDialog(pend, chatID, db) ==
    /\ IF ~db
         THEN out' = <<<<chatID, "ListError">>>>
         ELSE \E rs \in GetReminders(reminders, chatID) :
                 out' = IF Len(rs) = 0 THEN <<<<chatID, "ListEmpty">>>>
                        ELSE <<<<chatID, "List", rs>>>>
    /\ pending' = MapDelete(pend, chatID)
    /\ UNCHANGED <<users, reminders, nextID, evpc>>

\* Bot.handleList
handleList(pend, chatID, db) ==
    /\ IF ~db
         THEN out' = <<<<chatID, "ListError">>>>
         ELSE \E rs \in GetReminders(reminders, chatID) :
                 out' = IF Len(rs) = 0 THEN <<<<chatID, "ListEmpty">>>>
                        ELSE <<<<chatID, "List", rs>>>>
    /\ pending' = pend
    /\ UNCHANGED <<users, reminders, nextID, evpc>>

\* Bot.handleDeleteReminder
handleDeleteReminder(pend, chatID, messageID, reminderID, db) ==
    /\ reminders' = IF db THEN DeleteReminder(reminders, chatID, reminderID) ELSE reminders
    /\ out' = <<<<chatID, "DeleteMessage">>, <<chatID, "Deleted">>>>
    /\ pending' = pend
    /\ UNCHANGED <<users, nextID, evpc>>

\* a stop that throws the reminders of the user away
handleStop_Forget(pend, chatID, db) ==
    /\ users' = IF db THEN SetUserActive(users, chatID, FALSE) ELSE users
    /\ reminders' = {row \in reminders : row.chat_id /= chatID}
    /\ out' = <<<<chatID, "Stopped">>>>
    /\ pending' = pend
    /\ UNCHANGED <<nextID, evpc>>

\* Bot.handleStop
handleStop(pend, chatID, db) ==
    /\ users' = IF db THEN SetUserActive(users, chatID, FALSE) ELSE users
    /\ out' = <<<<chatID, "Stopped">>>>
    /\ pending' = pend
    /\ UNCHANGED <<reminders, nextID, evpc>>

\* b.adminID != 0 && chatID != b.adminID of handleStats
StatsDenied(chatID) == adminID /= 0 /\ chatID /= adminID

\* Bot.handleStats
handleStats(pend, chatID, db) ==
    /\ out' = IF StatsDenied(chatID) THEN <<<<chatID, "Denied">>>>
              ELSE IF ~db THEN <<<<chatID, "StatsError">>>>
              ELSE <<<<chatID, "Stats">>>>
    /\ pending' = pend
    /\ UNCHANGED <<users, reminders, nextID, evpc>>

\* b.adminID == 0 || chatID != b.adminID of handleNotify
NotifyDenied(chatID) == adminID = 0 \/ chatID /= adminID

\* Bot.handleNotify
handleNotify(pend, chatID, db) ==
    /\ out' = IF NotifyDenied(chatID) THEN <<<<chatID, "Denied">>>>
              ELSE IF ~db THEN <<<<chatID, "NotifyError">>>>
              ELSE <<<<chatID, "Broadcast", DOMAIN users>>, <<chatID, "NotifyReport">>>>
    /\ pending' = pend
    /\ UNCHANGED <<users, reminders, nextID, evpc>>

\* Bot.handleDonate
handleDonate(pend, chatID) ==
    /\ out' = <<<<chatID, "DonateMenu">>>>
    /\ pending' = pend
    /\ UNCHANGED <<users, reminders, nextID, evpc>>

-----------------------------------------------------------------------------
(* IncrementDoseTaken: two statements of Storage, UPDATE and then DELETE *)

\* completed = total > 0 && newCount >= total
IncrementCompleted(total, newCount) == total > 0 /\ newCount >= total

\* Bot.handleTakenConfirm up to the UPDATE ... RETURNING of Storage.IncrementDoseTaken.
\* No row, or an error of the repository: Bot.IncrementDoseTaken gives the empty name
\* and the handler only deletes the message.
handleTakenConfirm(pend, chatID, messageID, reminderID, db) ==
    LET target == IncrementTarget(reminders, chatID, reminderID)
    IN  /\ pending' = pend
        /\ UNCHANGED <<users, nextID>>
        /\ IF ~db \/ target = {}
             THEN /\ out' = <<<<chatID, "DeleteMessage">>>>
                  /\ UNCHANGED <<reminders, evpc>>
             ELSE LET row == CHOOSE x \in target : TRUE
                      newCount == row.doses_taken + 1
                  IN  /\ row.doses_taken < MaxDoses
                      /\ reminders' = IncrementUpdate(reminders, chatID, reminderID)
                      /\ IF IncrementCompleted(row.course_days, newCount)
                           THEN /\ evpc' = [pc |-> "delete", chatID |-> chatID,
                                            reminderID |-> reminderID]
                                /\ out' = <<>>
                           ELSE /\ evpc' = Idle
                                /\ out' = <<<<chatID, "Taken", newCount, row.course_days>>>>

\* a handler that congratulates before it confirms the dose
TakenDelete_CongratsFirst(db) ==
    /\ evpc.pc = "delete"
    /\ reminders' = IF db THEN DeleteReminder(reminders, evpc.chatID, evpc.reminderID)
                    ELSE reminders
    /\ out' = <<<<evpc.chatID, "Congrats">>, <<evpc.chatID, "Taken">>>>
    /\ evpc' = Idle
    /\ UNCHANGED <<users, nextID, pending, now, lastSentTime, spc, due, curUser, tick, adminID,
                   api, ev, hist>>

\* the rest of Storage.IncrementDoseTaken for a completed course, s.DeleteReminder (its
\* error is dropped), and the rest of handleTakenConfirm
TakenDelete(db) ==
    /\ evpc.pc = "delete"
    /\ reminders' = IF db THEN DeleteReminder(reminders, evpc.chatID, evpc.reminderID)
                    ELSE reminders
    /\ out' = <<<<evpc.chatID, "Taken">>, <<evpc.chatID, "Congrats">>>>
    /\ evpc' = Idle
    /\ UNCHANGED <<users, nextID, pending, now, lastSentTime, spc, due, curUser, tick, adminID,
                   api, ev, hist>>

-----------------------------------------------------------------------------
(* Bot.HandleUpdates: one action for each way an update is routed *)

\* state == StateWaitingMedicine && !IsCommand()
MsgMedicineInput(chatID, text) ==
    /\ evpc = Idle
    /\ StateOf(pending, chatID) = StateWaitingMedicine /\ ~IsCommand(text)
    /\ handleMedicineInput(pending, chatID, text)
    /\ UNCHANGED <<now, lastSentTime, spc, due, curUser, tick, adminID, api>>
    /\ Observe(chatID, "message", text)

\* state == StateWaitingCustomCourse && !IsCommand()
MsgCustomCourseInput(chatID, text, db) ==
    /\ evpc = Idle
    /\ StateOf(pending, chatID) = StateWaitingCustomCourse /\ ~IsCommand(text)
    /\ handleCustomCourseInput(pending, chatID, text, db)
    /\ UNCHANGED <<now, lastSentTime, spc, due, curUser, tick, adminID, api>>
    /\ Observe(chatID, "message", text)

\* IsCommand(): delete(b.pending, chatID), then the switch on Command()
MsgCommand(chatID, text, db) ==
    /\ evpc = Idle
    /\ IsCommand(text)
    /\ LET pend == MapDelete(pending, chatID)
           cmd == Command(text)
       IN  CASE cmd = CmdStart -> handleStart(pend, chatID, db)
             [] cmd = CmdAdd -> handleAdd(pend, chatID, db)
             [] cmd = CmdList -> handleList(pend, chatID, db)
             [] cmd = CmdStop -> handleStop(pend, chatID, db)
             [] cmd = CmdDonate -> handleDonate(pend, chatID)
             [] cmd = CmdStats -> handleStats(pend, chatID, db)
             [] cmd = CmdNotify -> handleNotify(pend, chatID, db)
             [] OTHER -> /\ pending' = pend
                         /\ out' = <<>>
                         /\ UNCHANGED <<users, reminders, nextID, evpc>>
    /\ UNCHANGED <<now, lastSentTime, spc, due, curUser, tick, adminID, api>>
    /\ Observe(chatID, "message", text)

\* the switch on the text of a reply button
MsgReplyButton(chatID, text, db) ==
    /\ evpc = Idle
    /\ ~IsCommand(text)
    /\ StateOf(pending, chatID) \notin {StateWaitingMedicine, StateWaitingCustomCourse}
    /\ CASE Contains(text, WordAdd) -> handleAdd(pending, chatID, db)
         [] ~Contains(text, WordAdd) /\ Contains(text, WordList) ->
                handleList(pending, chatID, db)
         [] ~Contains(text, WordAdd) /\ ~Contains(text, WordList) /\ Contains(text, WordStop) ->
                handleStop(pending, chatID, db)
         [] ~Contains(text, WordAdd) /\ ~Contains(text, WordList) /\ ~Contains(text, WordStop)
              /\ Contains(text, WordStart) ->
                handleStart(pending, chatID, db)
         [] OTHER -> /\ out' = IF ToLower(text) = WordHello THEN <<<<chatID, "Hello">>>>
                               ELSE <<>>
                     /\ UNCHANGED <<users, reminders, nextID, pending, evpc>>
    /\ UNCHANGED <<now, lastSentTime, spc, due, curUser, tick, adminID, api>>
    /\ Observe(chatID, "message", text)

-----------------------------------------------------------------------------
(* Bot.HandleUpdates in the two critical sections of a message: the loop reads the  *)
(* state under b.mu.RLock, releases the lock, and the handler takes b.mu.Lock for   *)
(* the transition.  Between the two the other goroutines may run.                  *)

\* the loop has read the state of the sender and has not called a handler yet
Reading == ev.kind = "reading"

\* b.mu.RLock(); pending := b.pending[chatID]; state = pending.State; b.mu.RUnlock()
MsgTake(chatID, text) ==
    /\ evpc = Idle
    /\ ~Reading
    /\ ev' = [chatID |-> chatID, kind |-> "reading", payload |-> text,
              state |-> StateOf(pending, chatID)]
    /\ UNCHANGED <<users, reminders, nextID, pending, evpc, out, now, lastSentTime, spc, due,
                   curUser, tick, adminID, api, hist>>

\* the rest of the turn of the loop: the handler that the state read selects
MsgRoute(db) ==
    /\ Reading
    /\ LET chatID == ev.chatID
           text == ev.payload
           state == ev.state
       IN  /\ CASE state = StateWaitingMedicine /\ ~IsCommand(text) ->
                      handleMedicineInput(pending, chatID, text)
                [] state = StateWaitingCustomCourse /\ ~IsCommand(text) ->
                      handleCustomCourseInput(pending, chatID, text, db)
                [] IsCommand(text) /\ Command(text) = CmdStart ->
                      handleStart(MapDelete(pending, chatID), chatID, db)
                [] IsCommand(text) /\ Command(text) = CmdAdd ->
                      handleAdd(MapDelete(pending, chatID), chatID, db)
                [] IsCommand(text) /\ Command(text) = CmdList ->
                      handleList(MapDelete(pending, chatID), chatID, db)
                [] IsCommand(text) /\ Command(text) = CmdStop ->
                      handleStop(MapDelete(pending, chatID), chatID, db)
                [] OTHER ->
                      /\ pending' = IF IsCommand(text) THEN MapDelete(pending, chatID)
                                    ELSE pending
                      /\ out' = <<>>
                      /\ UNCHANGED <<users, reminders, nextID, evpc>>
           /\ ev' = [ev EXCEPT !.kind = "message"]
           /\ hist' = [hist EXCEPT ![chatID] =
                          RunStep(hist[chatID], [kind |-> "message", payload |-> text])]
    /\ UNCHANGED <<now, lastSentTime, spc, due, curUser, tick, adminID, api>>

-----------------------------------------------------------------------------
(* Bot.handleCallback: one action for each case of the switch on the data *)

\* case strings.HasPrefix(data, "hour_")
CbHour(chatID, data, messageID) ==
    /\ evpc = Idle
    /\ HasPrefix(data, PrefHour)
    /\ handleHourSelected(pending, chatID, messageID, Atoi(TrimPrefix(data, PrefHour)).val)
    /\ UNCHANGED <<now, lastSentTime, spc, due, curUser, tick, adminID, api>>
    /\ Observe(chatID, "callback", data)

\* case strings.HasPrefix(data, "time_")
CbTime(chatID, data, messageID) ==
    /\ evpc = Idle
    /\ HasPrefix(data, PrefTime)
    /\ LET parts == Split(TrimPrefix(data, PrefTime))
       IN  IF Len(parts) = 2
             THEN handleTimeSelected(pending, chatID, messageID,
                                     Atoi(parts[1]).val, Atoi(parts[2]).val)
             ELSE /\ out' = <<>>
                  /\ UNCHANGED <<users, reminders, nextID, pending, evpc>>
    /\ UNCHANGED <<now, lastSentTime, spc, due, curUser, tick, adminID, api>>
    /\ Observe(chatID, "callback", data)

\* case strings.HasPrefix(data, "del_")
CbDel(chatID, data, messageID, db) ==
    /\ evpc = Idle
    /\ HasPrefix(data, PrefDel)
    /\ handleDeleteReminder(pending, chatID, messageID, Atoi(TrimPrefix(data, PrefDel)).val, db)
    /\ UNCHANGED <<now, lastSentTime, spc, due, curUser, tick, adminID, api>>
    /\ Observe(chatID, "callback", data)

\* case strings.HasPrefix(data, "course_")
CbCourse(chatID, data, messageID, db) ==
    /\ evpc = Idle
    /\ HasPrefix(data, PrefCourse)
    /\ LET courseStr == TrimPrefix(data, PrefCourse)
       IN  IF courseStr = DataCustom
             THEN /\ pending' = IF chatID \in DOMAIN pending
                                  THEN [pending EXCEPT
                                           ![chatID].State = StateWaitingCustomCourse,
                                           ![chatID].MsgID = messageID]
                                  ELSE pending
                  /\ out' = <<<<chatID, "DeleteMessage">>, <<chatID, "AskCustom">>>>
                  /\ UNCHANGED <<users, reminders, nextID, evpc>>
             ELSE handleCourseSelected(pending, chatID, messageID, Atoi(courseStr).val, db)
    /\ UNCHANGED <<now, lastSentTime, spc, due, curUser, tick, adminID, api>>
    /\ Observe(chatID, "callback", data)

\* case strings.HasPrefix(data, "taken_")
CbTaken(chatID, data, messageID, db) ==
    /\ evpc = Idle
    /\ HasPrefix(data, PrefTaken)
    /\ handleTakenConfirm(pending, chatID, messageID, Atoi(TrimPrefix(data, PrefTaken)).val, db)
    /\ UNCHANGED <<now, lastSentTime, spc, due, curUser, tick, adminID, api>>
    /\ Observe(chatID, "callback", data)

\* case strings.HasPrefix(data, "stars_")
CbStars(chatID, data, messageID) ==
    /\ evpc = Idle
    /\ HasPrefix(data, PrefStars)
    /\ out' = <<<<chatID, "DeleteMessage">>, <<chatID, "Invoice">>>>
    /\ UNCHANGED <<users, reminders, nextID, pending, evpc>>
    /\ UNCHANGED <<now, lastSentTime, spc, due, curUser, tick, adminID, api>>
    /\ Observe(chatID, "callback", data)

\* case data == "cancel"
CbCancel(chatID, data, messageID) ==
    /\ evpc = Idle
    /\ data = DataCancel
    /\ pending' = MapDelete(pending, chatID)
    /\ out' = <<<<chatID, "DeleteMessage">>, <<chatID, "Cancelled">>>>
    /\ UNCHANGED <<users, reminders, nextID, evpc>>
    /\ UNCHANGED <<now, lastSentTime, spc, due, curUser, tick, adminID, api>>
    /\ Observe(chatID, "callback", data)

-----------------------------------------------------------------------------
(* GET /api/reminders of startWebServer: served beside the two loops *)

\* ReminderJSON of a Reminder
ReminderJSON(r) ==
    [id |-> r.ID, medicine |-> r.Medicine, time |-> TimeString(r),
     course_days |-> r.CourseDays, doses_taken |-> r.DosesTaken]

\* Bot.GetUserReminders: the results it may give
GetUserReminders(rems, chatID, db) ==
    IF db THEN {[i \in 1..Len(rs) |-> ReminderJSON(rs[i])] : rs \in GetReminders(rems, chatID)}
    ELSE {<<>>}

\* a handler of /api/reminders that ends the dialog of the user it reads for
ApiReminders_EndDialog(chatID, db) ==
    /\ \E rs \in GetUserReminders(reminders, chatID, db) : api' = rs
    /\ pending' = MapDelete(pending, chatID)
    /\ UNCHANGED <<users, reminders, nextID, evpc, out, now, lastSentTime, spc, due,
                   curUser, tick, adminID, ev, hist>>

\* the handler of /api/reminders, for a chatID that is not 0
ApiReminders(chatID, db) ==
    /\ \E rs \in GetUserReminders(reminders, chatID, db) : api' = rs
    /\ UNCHANGED <<users, reminders, nextID, pending, evpc, out, now, lastSentTime, spc, due,
                   curUser, tick, adminID, ev, hist>>

-----------------------------------------------------------------------------
(* StartScheduler *)

\* the minutes of the clock the model visits, in turn (and round again the next day)
ClockTimes == <<<<9, 15>>, <<9, 16>>, <<9, 30>>>>

\* minute != 0 && minute != 15 && minute != 30 && minute != 45
OffMark(minute) == minute /= 0 /\ minute /= 15 /\ minute /= 30 /\ minute /= 45

\* currentTime := fmt.Sprintf("%02d:%02d", hour, minute)
CurrentTime(hour, minute) == Pad2(hour) \o <<":">> \o Pad2(minute)

\* a scheduler that remembers no slot
AlreadySent_Never(currentTime, last) == FALSE

\* currentTime == lastSentTime
AlreadySent(currentTime, last) == currentTime = last

\* Bot.GetRemindersForTime: the map of the repository, or an empty map when it fails
BotGetRemindersForTime(us, rems, hour, minute, db) ==
    IF db THEN GetRemindersForTime(us, rems, hour, minute) ELSE {EmptyMap}

\* a send that counts the dose once the message is out
sendReminderWithButton_ThenCount(rems, chatID, reminderID, ok) ==
    IF ok THEN IncrementUpdate(rems, chatID, reminderID) ELSE rems

\* a send that counts the dose before the message is out
sendReminderWithButton_CountFirst(rems, chatID, reminderID, ok) ==
    IncrementUpdate(rems, chatID, reminderID)

\* Bot.sendReminderWithButton: table reminders after the call (the call sends, with
\* outcome ok, a message with the button taken_<reminderID>; it writes nothing)
sendReminderWithButton(rems, chatID, reminderID, ok) == rems

\* the sends of the ticks that observed the same minute as this one
SlotOf(t) == IF t.obs = now THEN t.slot ELSE <<>>

\* a tick at a minute that is no quarter of an hour, in a scheduler that keeps the
\* slot it remembers
TickOffMark_KeepMarker ==
    /\ spc = "wait"
    /\ OffMark(now[2])
    /\ tick' = [tick EXCEPT !.obs = now, !.outcome = "offmark", !.slot = SlotOf(tick)]
    /\ UNCHANGED <<users, reminders, nextID, pending, evpc, out, now, lastSentTime, spc, due, curUser,
                   adminID, api, ev, hist>>

\* a tick at a minute that is no quarter of an hour: lastSentTime = ""
TickOffMark ==
    /\ spc = "wait"
    /\ OffMark(now[2])
    /\ lastSentTime' = <<>>
    /\ tick' = [tick EXCEPT !.obs = now, !.outcome = "offmark", !.slot = SlotOf(tick)]
    /\ UNCHANGED <<users, reminders, nextID, pending, evpc, out, now, spc, due, curUser, adminID, api, ev,
                   hist>>

\* a tick in a slot that was sent already
TickDedupe ==
    /\ spc = "wait"
    /\ ~OffMark(now[2])
    /\ AlreadySent(CurrentTime(now[1], now[2]), lastSentTime)
    /\ tick' = [tick EXCEPT !.obs = now, !.outcome = "dedupe", !.slot = SlotOf(tick)]
    /\ UNCHANGED <<users, reminders, nextID, pending, evpc, out, now, lastSentTime, spc, due,
                   curUser, adminID, api, ev, hist>>

\* a tick that finds nothing due, in a scheduler that remembers the slot all the same
TickEmpty_Remember(db) ==
    /\ spc = "wait"
    /\ ~OffMark(now[2])
    /\ ~AlreadySent(CurrentTime(now[1], now[2]), lastSentTime)
    /\ \E res \in BotGetRemindersForTime(users, reminders, now[1], now[2], db) :
          DOMAIN res = {}
    /\ lastSentTime' = CurrentTime(now[1], now[2])
    /\ tick' = [tick EXCEPT !.obs = now, !.outcome = "empty", !.slot = SlotOf(tick)]
    /\ UNCHANGED <<users, reminders, nextID, pending, evpc, out, now, spc, due,
                   curUser, adminID, api, ev, hist>>

\* a tick that finds nothing due: len(reminders) == 0
TickEmpty(db) ==
    /\ spc = "wait"
    /\ ~OffMark(now[2])
    /\ ~AlreadySent(CurrentTime(now[1], now[2]), lastSentTime)
    /\ \E res \in BotGetRemindersForTime(users, reminders, now[1], now[2], db) :
          DOMAIN res = {}
    /\ tick' = [tick EXCEPT !.obs = now, !.outcome = "empty", !.slot = SlotOf(tick)]
    /\ UNCHANGED <<users, reminders, nextID, pending, evpc, out, now, lastSentTime, spc, due,
                   curUser, adminID, api, ev, hist>>

\* a tick that finds reminders due and does not remember the slot
TickFire_Forgetful(db) ==
    /\ spc = "wait"
    /\ ~OffMark(now[2])
    /\ ~AlreadySent(CurrentTime(now[1], now[2]), lastSentTime)
    /\ \E res \in BotGetRemindersForTime(users, reminders, now[1], now[2], db) :
          /\ DOMAIN res /= {}
          /\ due' = res
          /\ tick' = [obs |-> now, outcome |-> "fired", snap |-> res,
                      active |-> {c \in DOMAIN users : users[c]},
                      sent |-> <<>>, slot |-> SlotOf(tick)]
    /\ lastSentTime' = lastSentTime
    /\ spc' = "send"
    /\ curUser' = 0
    /\ UNCHANGED <<users, nextID, reminders, pending, evpc, out, now, adminID, api, ev, hist>>

\* a tick that finds reminders due: lastSentTime = currentTime, and the loops start
TickFire(db) ==
    /\ spc = "wait"
    /\ ~OffMark(now[2])
    /\ ~AlreadySent(CurrentTime(now[1], now[2]), lastSentTime)
    /\ \E res \in BotGetRemindersForTime(users, reminders, now[1], now[2], db) :
          /\ DOMAIN res /= {}
          /\ due' = res
          /\ tick' = [obs |-> now, outcome |-> "fired", snap |-> res,
                      active |-> {c \in DOMAIN users : users[c]},
                      sent |-> <<>>, slot |-> SlotOf(tick)]
    /\ lastSentTime' = CurrentTime(now[1], now[2])
    /\ spc' = "send"
    /\ curUser' = 0
    /\ UNCHANGED <<users, nextID, reminders, pending, evpc, out, now, adminID, api, ev, hist>>

\* the keys of the map that the range loop may be at next
NextKeys ==
    IF curUser \in DOMAIN due /\ due[curUser] /= <<>> THEN {curUser}
    ELSE {c \in DOMAIN due : due[c] /= <<>>}

\* a loop that gives up the tick when a send fails
Send_AbortOnFailure(chatID, ok) ==
    /\ spc = "send"
    /\ chatID \in NextKeys
    /\ LET r == Head(due[chatID])
       IN  /\ reminders' = sendReminderWithButton(reminders, chatID, r.ID, ok)
           /\ tick' = [tick EXCEPT !.sent = Append(@, <<chatID, r.ID, ok>>),
                                   !.slot = Append(@, <<chatID, r.ID>>)]
           /\ due' = IF ok THEN [due EXCEPT ![chatID] = Tail(due[chatID])]
                     ELSE [c \in DOMAIN due |-> <<>>]
           /\ curUser' = chatID
    /\ UNCHANGED <<users, nextID, pending, evpc, out, now, lastSentTime, spc, adminID, api,
                   ev, hist>>

\* one turn of the inner loop: bot.sendReminderWithButton(chatID, text, r.ID); ok is
\* the outcome of the notifier
Send(chatID, ok) ==
    /\ spc = "send"
    /\ chatID \in NextKeys
    /\ LET r == Head(due[chatID])
       IN  /\ reminders' = sendReminderWithButton(reminders, chatID, r.ID, ok)
           /\ tick' = [tick EXCEPT !.sent = Append(@, <<chatID, r.ID, ok>>),
                                   !.slot = Append(@, <<chatID, r.ID>>)]
           /\ due' = [due EXCEPT ![chatID] = Tail(due[chatID])]
           /\ curUser' = chatID
    /\ UNCHANGED <<users, nextID, pending, evpc, out, now, lastSentTime, spc, adminID, api,
                   ev, hist>>

\* bot.sendReminderWithButton does not return: b.api.Send is called in the loop itself,
\* with no timeout, and the loop waits for it
SendHangs(chatID) ==
    /\ spc = "send"
    /\ chatID \in NextKeys
    /\ spc' = "hung"
    /\ curUser' = chatID
    /\ UNCHANGED <<users, reminders, nextID, pending, evpc, out, now, lastSentTime, due, tick,
                   adminID, api, ev, hist>>

\* bot.GetRemindersForTime does not return: s.pool.Query is called with
\* context.Background(), and the loop waits for it
QueryHangs ==
    /\ spc = "wait"
    /\ ~OffMark(now[2])
    /\ ~AlreadySent(CurrentTime(now[1], now[2]), lastSentTime)
    /\ spc' = "hung"
    /\ tick' = [tick EXCEPT !.obs = now, !.outcome = "hung", !.slot = SlotOf(tick)]
    /\ UNCHANGED <<users, reminders, nextID, pending, evpc, out, now, lastSentTime, due, curUser,
                   adminID, api, ev, hist>>

\* the range loops are through: back to the ticker
TickDone ==
    /\ spc = "send"
    /\ NextKeys = {}
    /\ spc' = "wait"
    /\ due' = EmptyMap
    /\ curUser' = 0
    /\ tick' = [tick EXCEPT !.snap = EmptyMap, !.active = {}, !.sent = <<>>]
    /\ UNCHANGED <<users, reminders, nextID, pending, evpc, out, now, lastSentTime, adminID,
                   api, ev, hist>>

\* the index of the minute the clock shows
RECURSIVE IndexOf(_, _)
IndexOf(q, x) == IF Head(q) = x THEN 1 ELSE 1 + IndexOf(Tail(q), x)

\* the clock moves on to the next minute.  The ticker has a period of 15 seconds, so a
\* scheduler that waits on it sees every minute at least once.
ClockAdvance ==
    /\ spc = "send" \/ tick.obs = now
    /\ now' = ClockTimes[(IndexOf(ClockTimes, now) % Len(ClockTimes)) + 1]
    /\ UNCHANGED <<users, reminders, nextID, pending, evpc, out, lastSentTime, spc, due,
                   curUser, tick, adminID, api, ev, hist>>

-----------------------------------------------------------------------------
(* The system *)

NoTick ==
    [obs |-> <<>>, outcome |-> "none", snap |-> EmptyMap, active |-> {}, sent |-> <<>>,
     slot |-> <<>>]

\* the values of ADMIN_ID
AdminIDs == {0, 1}

Init ==
    /\ users = EmptyMap
    /\ reminders = {}
    /\ nextID = 1
    /\ pending = EmptyMap
    /\ evpc = Idle
    /\ out = <<>>
    /\ now = ClockTimes[1]
    /\ lastSentTime = <<>>
    /\ spc = "wait"
    /\ due = EmptyMap
    /\ curUser = 0
    /\ tick = NoTick
    /\ adminID \in AdminIDs
    /\ api = <<>>
    /\ ev = NoEvent
    /\ hist = [c \in ChatIDs |-> <<>>]

-----------------------------------------------------------------------------
(* Inputs *)

Slash(cmd) == <<"/">> \o cmd

\* the texts a user types as the name of a medicine
NameTexts == {<<" ", "A", "b", " ">>, <<" ", " ">>, <<>>}

\* the texts a user types as the days of a course
DaysTexts == {<<" ", "7">>, <<"4", "0", "0">>, <<"0">>, <<"-", "1">>, <<"A", "b">>}

\* the commands
CommandTexts == {Slash(CmdStart), Slash(CmdAdd), Slash(CmdList), Slash(CmdStop)}

AdminCommandTexts == {Slash(CmdStats), Slash(CmdNotify), Slash(CmdDonate), Slash(<<"x">>)}

\* the texts of the reply buttons of getMainKeyboard
ButtonTexts == {<<"+", " ">> \o WordAdd, <<"M", "o", "i", " ">> \o WordList,
                <<"|", " ">> \o WordStop, <<">", " ">> \o WordStart,
                <<"P", "r", "i", "v", "e", "t">>}

\* the data of the buttons of showHourSelection, handleHourSelected, showCourseSelection
HourData == {PrefHour \o <<"9">>}
TimeData == {PrefTime \o <<"9", ":", "1", "5">>, PrefTime \o <<"9", ":", "3", "0">>}
CourseData == {PrefCourse \o <<"7">>, PrefCourse \o <<"0">>, PrefCourse \o DataCustom}

\* the data of the buttons of handleList and sendReminderWithButton
DelData == {PrefDel \o Itoa(i) : i \in 1..MaxReminders}
TakenData == {PrefTaken \o Itoa(i) : i \in 1..MaxReminders}
StarsData == {PrefStars \o <<"1">>}

\* whether the repository answers
DbOutcomes == BOOLEAN

-----------------------------------------------------------------------------
(* The whole system *)

Next ==
    \/ \E c \in ChatIDs, t \in NameTexts \cup DaysTexts \cup ButtonTexts : MsgMedicineInput(c, t)
    \/ \E c \in ChatIDs, t \in NameTexts \cup DaysTexts \cup ButtonTexts, db \in DbOutcomes :
          MsgCustomCourseInput(c, t, db)
    \/ \E c \in ChatIDs, t \in CommandTexts \cup AdminCommandTexts, db \in DbOutcomes :
          MsgCommand(c, t, db)
    \/ \E c \in ChatIDs, t \in NameTexts \cup DaysTexts \cup ButtonTexts, db \in DbOutcomes :
          MsgReplyButton(c, t, db)
    \/ \E c \in ChatIDs, d \in HourData, m \in MsgIDs : CbHour(c, d, m)
    \/ \E c \in ChatIDs, d \in TimeData, m \in MsgIDs : CbTime(c, d, m)
    \/ \E c \in ChatIDs, d \in DelData, m \in MsgIDs, db \in DbOutcomes : CbDel(c, d, m, db)
    \/ \E c \in ChatIDs, d \in CourseData, m \in MsgIDs, db \in DbOutcomes : CbCourse(c, d, m, db)
    \/ \E c \in ChatIDs, d \in TakenData, m \in MsgIDs, db \in DbOutcomes : CbTaken(c, d, m, db)
    \/ \E db \in DbOutcomes : TakenDelete(db)
    \/ \E c \in ChatIDs, d \in StarsData, m \in MsgIDs : CbStars(c, d, m)
    \/ \E c \in ChatIDs, m \in MsgIDs : CbCancel(c, DataCancel, m)
    \/ \E c \in ChatIDs, db \in DbOutcomes : ApiReminders(c, db)
    \/ TickOffMark
    \/ TickDedupe
    \/ \E db \in DbOutcomes : TickEmpty(db)
    \/ \E db \in DbOutcomes : TickFire(db)
    \/ \E c \in ChatIDs, ok \in BOOLEAN : Send(c, ok)
    \/ TickDone
    \/ ClockAdvance

Spec == Init /\ [][Next]_vars

-----------------------------------------------------------------------------
(* The dialog: one user creates reminders, the other one only starts and stops *)

DialogUsers == {1}
OtherUsers == ChatIDs \ DialogUsers
OtherCommandTexts == {Slash(CmdStart), Slash(CmdStop)}

InitDialog ==
    /\ Init
    /\ adminID = 1

NextDialog ==
    \/ \E c \in DialogUsers, t \in NameTexts : MsgMedicineInput(c, t)
    \/ \E c \in DialogUsers, t \in DaysTexts : MsgCustomCourseInput(c, t, TRUE)
    \/ \E c \in DialogUsers, t \in CommandTexts : MsgCommand(c, t, TRUE)
    \/ \E c \in OtherUsers, t \in OtherCommandTexts : MsgCommand(c, t, TRUE)
    \/ \E c \in DialogUsers, d \in HourData, m \in MsgIDs : CbHour(c, d, m)
    \/ \E c \in DialogUsers, d \in TimeData, m \in MsgIDs : CbTime(c, d, m)
    \/ \E c \in DialogUsers, d \in CourseData, m \in MsgIDs : CbCourse(c, d, m, TRUE)
    \/ \E c \in DialogUsers, m \in MsgIDs : CbCancel(c, DataCancel, m)

SpecDialog == InitDialog /\ [][NextDialog]_vars

-----------------------------------------------------------------------------
(* The scheduler: two users with reminders, who stop, start, delete and          *)
(* acknowledge while the scheduler ticks                                         *)

Row(id, chatID, minute, courseDays) ==
    [id |-> id, chat_id |-> chatID, medicine |-> <<"A", "b">>, hour |-> 9, minute |-> minute,
     course_days |-> courseDays, doses_taken |-> 0]

\* the reminders the users have created
SchedRows == {Row(1, 1, 15, 2), Row(2, 2, 15, 0), Row(3, 2, 30, 1)}

SchedIDs == {row.id : row \in SchedRows}

\* the reminders whose button "taken" is pressed while the scheduler runs
AckIDs == {3}

SchedCommandTexts == {Slash(CmdStart), Slash(CmdStop)}

InitSched ==
    /\ users = [c \in ChatIDs |-> TRUE]
    /\ reminders = SchedRows
    /\ nextID = Cardinality(SchedRows) + 1
    /\ pending = EmptyMap
    /\ evpc = Idle
    /\ out = <<>>
    /\ now = ClockTimes[1]
    /\ lastSentTime = <<>>
    /\ spc = "wait"
    /\ due = EmptyMap
    /\ curUser = 0
    /\ tick = NoTick
    /\ adminID = 1
    /\ api = <<>>
    /\ ev = NoEvent
    /\ hist = [c \in ChatIDs |-> <<>>]

NextSched ==
    \/ \E c \in ChatIDs, t \in SchedCommandTexts : MsgCommand(c, t, TRUE)
    \/ \E c \in ChatIDs, i \in SchedIDs, m \in MsgIDs : CbDel(c, PrefDel \o Itoa(i), m, TRUE)
    \/ \E c \in ChatIDs, i \in AckIDs, m \in MsgIDs, db \in DbOutcomes :
          CbTaken(c, PrefTaken \o Itoa(i), m, db)
    \/ \E db \in DbOutcomes : TakenDelete(db)
    \/ TickOffMark
    \/ TickDedupe
    \/ \E db \in DbOutcomes : TickEmpty(db)
    \/ \E db \in DbOutcomes : TickFire(db)
    \/ \E c \in ChatIDs, ok \in BOOLEAN : Send(c, ok)
    \/ TickDone
    \/ ClockAdvance

SpecSched == InitSched /\ [][NextSched]_vars

\* the loops of the scheduler go on: a send returns, and the range loops end
SpecSchedFair ==
    /\ SpecSched
    /\ WF_vars(\E c \in ChatIDs, ok \in BOOLEAN : Send(c, ok))
    /\ WF_vars(TickDone)

-----------------------------------------------------------------------------
(* Acknowledgements: the users acknowledge, delete, stop and start, and the     *)
(* companion page reads                                                          *)

NextAck ==
    \/ \E c \in ChatIDs, t \in SchedCommandTexts : MsgCommand(c, t, TRUE)
    \/ \E c \in ChatIDs, i \in SchedIDs, m \in MsgIDs : CbDel(c, PrefDel \o Itoa(i), m, TRUE)
    \/ \E c \in ChatIDs, i \in SchedIDs, m \in MsgIDs, db \in DbOutcomes :
          CbTaken(c, PrefTaken \o Itoa(i), m, db)
    \/ \E db \in DbOutcomes : TakenDelete(db)
    \/ \E c \in ChatIDs : ApiReminders(c, TRUE)

SpecAck == InitSched /\ [][NextAck]_vars

-----------------------------------------------------------------------------
(* The scheduler with a ticker that is served in time: the ticker fires every 15   *)
(* seconds, so no minute goes by without a turn of the loop                       *)

\* a minute goes by once the loop has seen it
MinutePasses == tick.obs = now /\ ClockAdvance

\* one turn of the loop, with a repository that answers
Ticks == TickOffMark \/ TickDedupe \/ TickEmpty(TRUE) \/ TickFire(TRUE)

NextTicking ==
    \/ \E c \in ChatIDs, t \in SchedCommandTexts : MsgCommand(c, t, TRUE)
    \/ \E c \in ChatIDs, i \in SchedIDs, m \in MsgIDs : CbDel(c, PrefDel \o Itoa(i), m, TRUE)
    \/ TickOffMark
    \/ TickDedupe
    \/ TickEmpty(TRUE)
    \/ TickFire(TRUE)
    \/ \E c \in ChatIDs, ok \in BOOLEAN : Send(c, ok)
    \/ TickDone
    \/ MinutePasses

SpecTicking ==
    /\ InitSched
    /\ [][NextTicking]_vars
    /\ WF_vars(Ticks)
    /\ WF_vars(\E c \in ChatIDs, ok \in BOOLEAN : Send(c, ok))
    /\ WF_vars(TickDone)

-----------------------------------------------------------------------------
(* The three goroutines: the loop of the updates, with a message handled in two    *)
(* steps, the scheduler and the companion page                                     *)

\* the texts of the messages: a name and a command
LoopTexts == {<<"A", "b">>, Slash(CmdAdd)}
LoopCourseData == {PrefCourse \o <<"7">>}
LoopTimeData == {PrefTime \o <<"9", ":", "1", "5">>}

\* the callbacks are taken by the same loop, one update after the other
LoopCbHour(c, d, m) == ~Reading /\ CbHour(c, d, m)
LoopCbTime(c, d, m) == ~Reading /\ CbTime(c, d, m)
LoopCbCourse(c, d, m, db) == ~Reading /\ CbCourse(c, d, m, db)

\* the scheduler runs in the minute 9:15
NextLoops ==
    \/ \E c \in DialogUsers, t \in LoopTexts : MsgTake(c, t)
    \/ MsgRoute(TRUE)
    \/ \E c \in DialogUsers, d \in HourData, m \in MsgIDs : LoopCbHour(c, d, m)
    \/ \E c \in DialogUsers, d \in LoopTimeData, m \in MsgIDs : LoopCbTime(c, d, m)
    \/ \E c \in DialogUsers, d \in LoopCourseData, m \in MsgIDs : LoopCbCourse(c, d, m, TRUE)
    \/ \E c \in DialogUsers : ApiReminders(c, TRUE)
    \/ TickDedupe
    \/ TickEmpty(TRUE)
    \/ TickFire(TRUE)
    \/ \E c \in ChatIDs, ok \in BOOLEAN : Send(c, ok)
    \/ TickDone

SpecLoops == InitDialog /\ [][NextLoops]_vars

-----------------------------------------------------------------------------
(* The dialog of a user who presses the buttons of the main keyboard meanwhile *)

\* the labels of getMainKeyboard
LabelAdd == <<"+", " ">> \o WordAdd
LabelList == <<"M", "o", "i", " ">> \o WordList
LabelStop == <<"|", " ">> \o WordStop
LabelStart == <<">", " ">> \o WordStart

\* the texts of the messages: typed when the name is asked for, when a button is to be
\* pressed, and when the number of days is asked for
MenuNameTexts == {LabelList, LabelAdd, <<" ">>}
MenuTexts == {LabelAdd, LabelList, LabelStop, LabelStart}
MenuDaysTexts == {<<"3">>, LabelStop}
MenuCourseData == {PrefCourse \o DataCustom}
MenuTimeData == {PrefTime \o <<"9", ":", "1", "5">>}

NextMenu ==
    \/ \E c \in DialogUsers : MsgCommand(c, Slash(CmdAdd), TRUE)
    \/ \E c \in DialogUsers, t \in MenuNameTexts : MsgMedicineInput(c, t)
    \/ \E c \in DialogUsers, t \in MenuDaysTexts : MsgCustomCourseInput(c, t, TRUE)
    \/ \E c \in DialogUsers, t \in MenuTexts : MsgReplyButton(c, t, TRUE)
    \/ \E c \in DialogUsers, d \in HourData, m \in MsgIDs : CbHour(c, d, m)
    \/ \E c \in DialogUsers, d \in MenuTimeData, m \in MsgIDs : CbTime(c, d, m)
    \/ \E c \in DialogUsers, d \in MenuCourseData, m \in MsgIDs : CbCourse(c, d, m, TRUE)

SpecMenu == InitDialog /\ [][NextMenu]_vars

-----------------------------------------------------------------------------
(* The life of a reminder: it is created by the dialog, the scheduler notifies   *)
(* in the minute 9:15, the user acknowledges, lists, stops, starts, asks for the *)
(* statistics and cancels                                                        *)

LifeCommandTexts == {Slash(CmdStart), Slash(CmdStop), Slash(CmdList), Slash(CmdStats),
                     Slash(CmdAdd)}
LifeNames == {<<"A">>}
LifeTimeData == {PrefTime \o <<"9", ":", "1", "5">>}
LifeCourseData == {PrefCourse \o DataCustom}
LifeDaysTexts == {<<"2">>}

NextLife ==
    \/ \E c \in DialogUsers, t \in LifeCommandTexts : MsgCommand(c, t, TRUE)
    \/ \E c \in DialogUsers, t \in LifeNames : MsgMedicineInput(c, t)
    \/ \E c \in DialogUsers, t \in LifeDaysTexts : MsgCustomCourseInput(c, t, TRUE)
    \/ \E c \in DialogUsers, d \in HourData, m \in MsgIDs : CbHour(c, d, m)
    \/ \E c \in DialogUsers, d \in LifeTimeData, m \in MsgIDs : CbTime(c, d, m)
    \/ \E c \in DialogUsers, d \in LifeCourseData, m \in MsgIDs : CbCourse(c, d, m, TRUE)
    \/ \E c \in DialogUsers, m \in MsgIDs : CbCancel(c, DataCancel, m)
    \/ \E c \in DialogUsers, d \in TakenData, m \in MsgIDs : CbTaken(c, d, m, TRUE)
    \/ TakenDelete(TRUE)
    \/ TickDedupe
    \/ TickEmpty(TRUE)
    \/ TickFire(TRUE)
    \/ \E c \in ChatIDs : Send(c, TRUE)
    \/ TickDone

SpecLife == InitDialog /\ [][NextLife]_vars

-----------------------------------------------------------------------------
(* The dialog, the list and the deletion with a repository that may fail *)

FailCommandTexts == {Slash(CmdAdd), Slash(CmdList)}
FailCourseData == {PrefCourse \o <<"7">>, PrefCourse \o DataCustom}
FailDaysTexts == {<<"3">>}
FailNames == {<<"A", "b">>}

NextFail ==
    \/ \E c \in DialogUsers, t \in FailCommandTexts, db \in DbOutcomes : MsgCommand(c, t, db)
    \/ \E c \in DialogUsers, t \in FailNames : MsgMedicineInput(c, t)
    \/ \E c \in DialogUsers, d \in HourData, m \in MsgIDs : CbHour(c, d, m)
    \/ \E c \in DialogUsers, d \in TimeData, m \in MsgIDs : CbTime(c, d, m)
    \/ \E c \in DialogUsers, d \in FailCourseData, m \in MsgIDs, db \in DbOutcomes :
          CbCourse(c, d, m, db)
    \/ \E c \in DialogUsers, t \in FailDaysTexts, db \in DbOutcomes :
          MsgCustomCourseInput(c, t, db)
    \/ \E c \in DialogUsers, d \in DelData, m \in MsgIDs, db \in DbOutcomes : CbDel(c, d, m, db)

SpecFail == InitDialog /\ [][NextFail]_vars

-----------------------------------------------------------------------------
(* The scheduler with calls that may not return *)

NextHang ==
    \/ \E c \in ChatIDs, t \in SchedCommandTexts : MsgCommand(c, t, TRUE)
    \/ \E c \in ChatIDs, i \in SchedIDs, m \in MsgIDs : CbDel(c, PrefDel \o Itoa(i), m, TRUE)
    \/ TickOffMark
    \/ TickDedupe
    \/ TickEmpty(TRUE)
    \/ TickFire(TRUE)
    \/ \E c \in ChatIDs, ok \in BOOLEAN : Send(c, ok)
    \/ \E c \in ChatIDs : SendHangs(c)
    \/ QueryHangs
    \/ TickDone
    \/ MinutePasses

SpecHang ==
    /\ InitSched
    /\ [][NextHang]_vars
    /\ WF_vars(Ticks)
    /\ WF_vars(\E c \in ChatIDs, ok \in BOOLEAN : Send(c, ok))
    /\ WF_vars(TickDone)

-----------------------------------------------------------------------------
(* One minute of the scheduler: the slot of 9:15 of the first day is sent, and the *)
(* users press the buttons of the messages, more than once too                    *)

\* the reminders that are due in this minute
ReplayIDs == {1, 2}

NextReplay ==
    \/ TickDedupe
    \/ TickFire(TRUE)
    \/ \E c \in ChatIDs, ok \in BOOLEAN : Send(c, ok)
    \/ TickDone
    \/ \E c \in ChatIDs, i \in ReplayIDs, m \in MsgIDs, db \in DbOutcomes :
          CbTaken(c, PrefTaken \o Itoa(i), m, db)
    \/ \E db \in DbOutcomes : TakenDelete(db)

SpecReplay == InitSched /\ [][NextReplay]_vars

-----------------------------------------------------------------------------
(* The dialog with callback data that no button of the bot carries: a client may  *)
(* send any data with a callback query                                           *)

PayloadNames == {<<"A", "b">>}
PayloadHourData == HourData \cup {PrefHour \o <<"9", "9">>, PrefHour \o <<"x">>}
PayloadTimeData ==
    {PrefTime \o <<"9", ":", "1", "5">>, PrefTime \o <<"9", ":", "7">>, PrefTime \o <<"9">>}
PayloadCourseData ==
    {PrefCourse \o <<"7">>, PrefCourse \o <<"4", "0", "0">>, PrefCourse \o <<"-", "1">>}

NextPayload ==
    \/ \E c \in DialogUsers : MsgCommand(c, Slash(CmdAdd), TRUE)
    \/ \E c \in DialogUsers, t \in PayloadNames : MsgMedicineInput(c, t)
    \/ \E c \in DialogUsers, d \in PayloadHourData, m \in MsgIDs : CbHour(c, d, m)
    \/ \E c \in DialogUsers, d \in PayloadTimeData, m \in MsgIDs : CbTime(c, d, m)
    \/ \E c \in DialogUsers, d \in PayloadCourseData, m \in MsgIDs : CbCourse(c, d, m, TRUE)

SpecPayload == InitDialog /\ [][NextPayload]_vars

-----------------------------------------------------------------------------
(* The commands of the administrator: any value of ADMIN_ID, users that start,   *)
(* stop, begin a dialog, and ask for the statistics or a broadcast               *)

AdminSpecTexts == AdminCommandTexts \cup {Slash(CmdStart), Slash(CmdStop), Slash(CmdAdd)}

NextAdmin ==
    \E c \in ChatIDs, t \in AdminSpecTexts, db \in DbOutcomes : MsgCommand(c, t, db)

SpecAdmin == Init /\ [][NextAdmin]_vars

-----------------------------------------------------------------------------
(* Properties of the repository *)

\* C1: every stored reminder has course_days = 0 or doses_taken < course_days, in
\* every state the program goes through, the states between the UPDATE and the
\* DELETE of IncrementDoseTaken included, and no reader is handed a reminder that
\* has neither.
C1_CourseNeverOverrun ==
    /\ \A row \in reminders : row.course_days = 0 \/ row.doses_taken < row.course_days
    /\ \A i \in 1..Len(api) : api[i].course_days = 0 \/ api[i].doses_taken < api[i].course_days

\* the times of the day the query is asked for
QueryTimes == {ClockTimes[i] : i \in 1..Len(ClockTimes)}

\* the reminders of user c that are due at time t: their time is t, c is active and
\* the course is not finished
DueOf(c, t) ==
    {row \in reminders :
        /\ row.chat_id = c
        /\ row.hour = t[1] /\ row.minute = t[2]
        /\ c \in DOMAIN users /\ users[c]
        /\ ~(row.course_days > 0 /\ row.doses_taken >= row.course_days)}

AsReminder(row) ==
    [ID |-> row.id, Medicine |-> row.medicine, Hour |-> row.hour, Minute |-> row.minute,
     CourseDays |-> row.course_days, DosesTaken |-> row.doses_taken]

\* C2: GetRemindersForTime(h, m) gives exactly the reminders whose time is (h, m),
\* whose owner is active and whose course is not finished, each one once, under the
\* key of its owner; a user with no such reminder has no key.
C2_DueExactly ==
    \A t \in QueryTimes : \A res \in GetRemindersForTime(users, reminders, t[1], t[2]) :
        /\ DOMAIN res = {c \in ChatIDs : DueOf(c, t) /= {}}
        /\ \A c \in DOMAIN res :
              /\ Len(res[c]) = Cardinality(DueOf(c, t))
              /\ {res[c][i] : i \in 1..Len(res[c])} = {AsReminder(row) : row \in DueOf(c, t)}

\* the query gives reminders while a stopped user has a reminder and an active user
\* has a finished course
C2_Witness ==
    /\ \E t \in QueryTimes : \E res \in GetRemindersForTime(users, reminders, t[1], t[2]) :
          DOMAIN res /= {}
    /\ \E row \in reminders : row.chat_id \in DOMAIN users /\ ~users[row.chat_id]
    /\ \E row \in reminders :
          /\ row.chat_id \in DOMAIN users /\ users[row.chat_id]
          /\ row.course_days > 0 /\ row.doses_taken >= row.course_days

-----------------------------------------------------------------------------
(* Properties of the scheduler *)

\* a step of the scheduler
SchedStep == <<lastSentTime, spc, due, curUser, tick>>' /= <<lastSentTime, spc, due, curUser, tick>>

\* a step in which the scheduler calls sendReminderWithButton
SendStep == Len(tick'.sent) = Len(tick.sent) + 1

\* <<chatID, reminder id, outcome>> of the call of that step
SendOf == tick'.sent[Len(tick'.sent)]

\* C3: the ticks that observe the same minute of a quarter of an hour, one after the
\* other, deliver each reminder at most once between them.
C3_OncePerSlot ==
    \A i, j \in 1..Len(tick.slot) : tick.slot[i] = tick.slot[j] => i = j

\* a tick was skipped because the slot had been sent by an earlier tick
C3_Witness == tick.outcome = "dedupe" /\ tick.slot /= <<>>

\* the reminders the tick has sent to user c, in the order of the calls
SentTo(c) == SelectSeq(tick.sent, LAMBDA e : e[1] = c)

IDs(rs) == [i \in 1..Len(rs) |-> rs[i].ID]

\* what a tick that fired has done so far: it calls the notifier for the reminders
\* that the query gave it, user by user, each of them once
TickAccounts ==
    spc = "send" =>
        /\ \A c \in DOMAIN tick.snap :
              /\ c \in tick.active
              /\ \A i \in 1..Len(tick.snap[c]) :
                    tick.snap[c][i].Hour = tick.obs[1] /\ tick.snap[c][i].Minute = tick.obs[2]
              /\ [i \in 1..Len(SentTo(c)) |-> SentTo(c)[i][2]] \o IDs(due[c]) = IDs(tick.snap[c])
        /\ \A i \in 1..Len(tick.sent) : tick.sent[i][1] \in DOMAIN tick.snap

\* C4: a tick that fires at (h, m) calls the notifier exactly once for every reminder
\* that GetRemindersForTime(h, m) gave it, for none of a user who was inactive at the
\* query and for none of another time, and it modifies no reminder and no user.
C4_FiringTick ==
    [][/\ TickAccounts'
       /\ SchedStep => reminders' = reminders /\ users' = users]_vars

\* a tick is through its sends while a stopped user has a reminder of this time
\* and there is a reminder of another time
C4_Witness ==
    /\ spc = "send" /\ NextKeys = {} /\ tick.sent /= <<>>
    /\ \E row \in reminders :
          /\ row.chat_id \notin tick.active
          /\ row.hour = tick.obs[1] /\ row.minute = tick.obs[2]
    /\ \E row \in reminders : row.minute /= tick.obs[2]

EventStep ==
    /\ evpc = Idle
    /\ UNCHANGED <<now, lastSentTime, spc, due, curUser, tick, api>>

C6_FailedSendNotCounted ==
    [][(SendStep /\ ~SendOf[3]) =>
          \A row \in reminders : row.id = SendOf[2] => row \in reminders']_vars

\* a send of the tick has failed
C6_Witness ==
    \E i \in 1..Len(tick.sent) :
        /\ ~tick.sent[i][3]
        /\ \E row \in reminders : row.id = tick.sent[i][2] /\ row.doses_taken = 0

\* C10: the scheduler sends no notification to a user whose flag active is false at
\* the time of the send, whatever the user does between the query and the send.
C10_NoSendToStopped ==
    [][SendStep => (SendOf[1] \in DOMAIN users /\ users[SendOf[1]])]_vars

-----------------------------------------------------------------------------
(* Properties of the dialog *)

\* the hours, minutes and days the buttons of the dialog stand for
ButtonHours == 0..23
ButtonMinutes == {0, 15, 30, 45}
ButtonDays == {7, 14, 21, 30, 60, 90, 0}

\* the <<hour, minute, days>> that the inputs h of a dialog make up, when h is a
\* whole dialog: /add, a name, hour_H, time_H:M and course_D, or course_custom and
\* a text that is the numeral of a D from 1 to 365
RunOf(h) ==
    IF Len(h) < 5 THEN {}
    ELSE LET hours == {H \in ButtonHours : h[3].payload = PrefHour \o Itoa(H)}
             times == {t \in hours \X ButtonMinutes :
                          h[4].payload = PrefTime \o Itoa(t[1]) \o <<":">> \o Itoa(t[2])}
             days == IF Len(h) = 5
                       THEN {D \in ButtonDays : h[5].payload = PrefCourse \o Itoa(D)}
                       ELSE {D \in MinCourseDays..MaxCourseDays :
                                TrimSpace(h[6].payload) = Itoa(D)}
         IN  {<<t[1], t[2], D>> : t \in times, D \in days}

\* C7: a dialog /add, name, hour H, time (H, M), course D (a button, or "custom" and
\* the text of a D from 1 to 365) that nothing interrupts stores exactly one new
\* reminder, of the trimmed name, H, M, D and no dose taken, and leaves the user
\* without a dialog; the two ways of giving D store the same reminder.
C7_DialogStoresOne ==
    [][\A c \in ChatIDs :
          (EventStep /\ ev'.chatID = c) =>
            \A t \in RunOf(hist'[c]) :
              LET row == [id |-> nextID, chat_id |-> c,
                          medicine |-> TrimSpace(hist'[c][2].payload),
                          hour |-> t[1], minute |-> t[2], course_days |-> t[3],
                          doses_taken |-> 0]
              IN  /\ row \notin reminders
                  /\ reminders' = reminders \cup {row}
                  /\ c \notin DOMAIN pending']_vars

\* a dialog with a course of custom length has ended and its reminder is stored
C7_Witness ==
    \E c \in ChatIDs :
        /\ ev.chatID = c /\ RunOf(hist[c]) /= {} /\ Len(hist[c]) = 6
        /\ c \notin DOMAIN pending
        /\ \E row \in reminders :
              row.chat_id = c /\ row.medicine = <<"A", "b">> /\ row.course_days = 7

\* what command cmd of user c does when there is no dialog
CommandDone(c, cmd) ==
    CASE cmd = CmdStart -> /\ out' = <<<<c, "Welcome">>>>
                           /\ users' = [k \in DOMAIN users \cup {c} |->
                                           IF k = c THEN TRUE ELSE users[k]]
      [] cmd = CmdAdd -> /\ out' = <<<<c, "AskMedicine">>>>
                         /\ DOMAIN users' = DOMAIN users \cup {c}
      [] cmd = CmdList -> /\ out'[1][2] \in {"List", "ListEmpty"}
                          /\ users' = users
      [] cmd = CmdStop -> /\ out' = <<<<c, "Stopped">>>>
                          /\ \A k \in DOMAIN users' : users'[k] = (k /= c /\ users[k])
      [] OTHER -> TRUE

\* C8: a command that arrives in any state of the dialog discards the dialog, is
\* carried out as it is without a dialog, and stores no reminder; after /add the
\* user is in a fresh dialog that waits for the name.
C8_CommandDiscards ==
    [][\A c \in ChatIDs :
          (/\ EventStep
           /\ ev'.chatID = c /\ ev'.kind = "message" /\ IsCommand(ev'.payload)
           /\ ev'.state /= StateNone) =>
              /\ reminders' = reminders
              /\ IF Command(ev'.payload) = CmdAdd
                   THEN /\ c \in DOMAIN pending'
                        /\ pending'[c].State = StateWaitingMedicine
                        /\ pending'[c].Medicine = <<>>
                   ELSE c \notin DOMAIN pending'
              /\ \A k \in DOMAIN pending \ {c} : k \in DOMAIN pending' /\ pending'[k] = pending[k]
              /\ CommandDone(c, Command(ev'.payload))]_vars

\* /list arrived while the dialog waited for the length of the course
C8_Witness ==
    /\ ev.kind = "message" /\ IsCommand(ev.payload) /\ Command(ev.payload) = CmdList
    /\ ev.state = StateWaitingCourse
    /\ ev.chatID \notin DOMAIN pending

\* the days a text stands for: the numbers from 1 to 365 of which it is the numeral
DaysOf(text) ==
    LET t == TrimSpace(text)
    IN  IF t = <<>> \/ ~IsDigit(t[1]) THEN {}
        ELSE {d \in MinCourseDays..MaxCourseDays : t = Itoa(d)}

-----------------------------------------------------------------------------
(* Properties of IncrementDoseTaken *)

\* a step in which user c presses taken_<id>: handleTakenConfirm starts
TakenStep(c, id) ==
    /\ EventStep
    /\ ev'.chatID = c /\ ev'.kind = "callback" /\ ev'.payload = PrefTaken \o Itoa(id)

\* a step in which IncrementDoseTaken returns completed = true
CompletedReturn == evpc.pc = "delete" /\ evpc'.pc = "idle"

\* C11: IncrementDoseTaken on a reminder with course_days > 0 and doses_taken =
\* course_days - 1 counts to course_days, returns completed = true, and when it has
\* returned the reminder does not exist; on a reminder with fewer doses, or with
\* course_days = 0, it returns completed = false and the reminder remains.
C11_CompletionRemoves ==
    [][/\ \A row \in reminders :
             (TakenStep(row.chat_id, row.id) /\ reminders' /= reminders) =>
                 LET after == [row EXCEPT !.doses_taken = row.doses_taken + 1]
                 IN  /\ after \in reminders'
                     /\ (row.course_days > 0 /\ row.doses_taken = row.course_days - 1) =>
                            evpc'.pc = "delete"
                     /\ (row.course_days = 0 \/ row.doses_taken < row.course_days - 1) =>
                            /\ evpc'.pc = "idle"
                            /\ out' = <<<<row.chat_id, "Taken", after.doses_taken,
                                          row.course_days>>>>
       /\ CompletedReturn => \A row \in reminders' : row.id /= evpc.reminderID]_vars

\* the ids of the stored reminders
StoredIDs(rems) == {row.id : row \in rems}

\* C12: however the calls of IncrementDoseTaken and DeleteReminder on a reminder
\* follow each other, every call of IncrementDoseTaken that finds the reminder
\* raises doses_taken by exactly one and reports the new count, no other step
\* changes the count, and a reminder that was removed never exists again.
C12_CountsOnceEach ==
    [][/\ \A c \in ChatIDs, id \in SchedIDs :
             TakenStep(c, id) =>
                 LET target == {row \in reminders : row.id = id /\ row.chat_id = c}
                 IN  \/ /\ reminders' = reminders
                        /\ out' = <<<<c, "DeleteMessage">>>>
                     \/ \E row \in target :
                           /\ reminders' = (reminders \ {row}) \cup
                                  {[row EXCEPT !.doses_taken = row.doses_taken + 1]}
                           /\ \/ out' = <<<<c, "Taken", row.doses_taken + 1, row.course_days>>>>
                              \/ evpc'.pc = "delete"
       /\ \A row \in reminders, after \in reminders' :
             (after.id = row.id /\ after /= row) =>
                 /\ after = [row EXCEPT !.doses_taken = row.doses_taken + 1]
                 /\ TakenStep(row.chat_id, row.id)
       /\ \A id \in 1..(nextID - 1) :
             id \notin StoredIDs(reminders) => id \notin StoredIDs(reminders')]_vars

\* a reminder has been acknowledged twice, another one is removed, and the last
\* update was an acknowledgement
C12_Witness ==
    /\ \E row \in reminders : row.doses_taken = 2
    /\ \E id \in SchedIDs : id \notin StoredIDs(reminders)
    /\ ev.kind = "callback" /\ HasPrefix(ev.payload, PrefTaken)

-----------------------------------------------------------------------------
(* Properties of the commands of the administrator *)

\* C13: whatever ADMIN_ID is, also when it is not set, a user who is not the
\* administrator and sends /stats or /notify is answered that the command is for the
\* administrator only; no statistics are shown and nothing is broadcast.
C13_AdminOnly ==
    [][\A c \in ChatIDs :
          (/\ EventStep
           /\ ev'.chatID = c /\ ev'.kind = "message" /\ IsCommand(ev'.payload)
           /\ Command(ev'.payload) \in {CmdStats, CmdNotify}
           /\ c /= adminID) =>
              out' = <<<<c, "Denied">>>>]_vars

-----------------------------------------------------------------------------
(* Properties of the scheduler when the notifier fails *)

\* the pairs <<user, reminder id>> the query gave to the tick, and those it has sent
SnapPairs ==
    UNION {{<<c, tick.snap[c][i].ID>> : i \in 1..Len(tick.snap[c])} : c \in DOMAIN tick.snap}

SentPairs == {<<tick.sent[i][1], tick.sent[i][2]>> : i \in 1..Len(tick.sent)}

\* a send of the running tick has failed
FailedInTick == spc = "send" /\ \E i \in 1..Len(tick.sent) : ~tick.sent[i][3]

\* C14: a send that fails does not end the tick: the reminders still to send stay to
\* be sent, the tick ends only when a send was tried for every pair the query gave,
\* and the scheduler comes back to wait for the next ticks.
C14_FailureDoesNotAbort ==
    /\ [][/\ (SendStep /\ ~SendOf[3]) =>
                /\ spc' = "send"
                /\ \A c \in DOMAIN due :
                      due'[c] = IF c = SendOf[1] THEN Tail(due[c]) ELSE due[c]
          /\ (spc = "send" /\ spc' = "wait") => SnapPairs \subseteq SentPairs]_vars
    /\ FailedInTick ~> spc = "wait"

\* the first send of a tick failed and a send to another pair was tried after it
C14_Witness ==
    /\ spc = "send" /\ Len(tick.sent) >= 2
    /\ ~tick.sent[1][3]

-----------------------------------------------------------------------------
(* Properties of stop and start *)

\* a step in which user c sends command cmd
CommandStep(c, cmd) ==
    /\ EventStep
    /\ ev'.chatID = c /\ ev'.kind = "message" /\ IsCommand(ev'.payload)
    /\ Command(ev'.payload) = cmd

\* the reminders of user c with time t whose course is not finished
UnfinishedOf(rems, c, t) ==
    {row \in rems :
        /\ row.chat_id = c /\ row.hour = t[1] /\ row.minute = t[2]
        /\ (row.course_days = 0 \/ row.doses_taken < row.course_days)}

\* C15: stop only sets active of the user to false: the reminders, with all their
\* fields, stay as they are and none of the user is due; a later start makes the
\* same reminders due again.
C15_StopKeepsData ==
    [][\A c \in ChatIDs :
          /\ CommandStep(c, CmdStop) =>
                /\ reminders' = reminders
                /\ DOMAIN users' = DOMAIN users
                /\ \A k \in DOMAIN users : users'[k] = (k /= c /\ users[k])
                /\ \A t \in QueryTimes : DueOf(c, t)' = {}
          /\ CommandStep(c, CmdStart) =>
                /\ reminders' = reminders
                /\ \A t \in QueryTimes : DueOf(c, t)' = UnfinishedOf(reminders, c, t)]_vars

\* a user who has acknowledged a dose has stopped, and the reminder is as it was
C15_Witness ==
    /\ ev.kind = "message" /\ IsCommand(ev.payload) /\ Command(ev.payload) = CmdStop
    /\ ev.chatID \in DOMAIN users /\ ~users[ev.chatID]
    /\ \E row \in reminders : row.chat_id = ev.chatID /\ row.doses_taken = 1

-----------------------------------------------------------------------------
(* Properties of the dialog states *)

WaitingStates ==
    {StateWaitingMedicine, StateWaitingHour, StateWaitingMinute, StateWaitingCourse,
     StateWaitingCustomCourse}

\* C16: every entry of the map pending is in one of the five waiting states (a user
\* in state none has no entry, and a user has one entry at most), and an add while
\* there is an entry puts a fresh entry in its place: waiting_medicine, no name.
C16_PendingOnlyWhileWaiting ==
    [][/\ \A c \in DOMAIN pending' : pending'[c].State \in WaitingStates
       /\ \A c \in ChatIDs :
             (CommandStep(c, CmdAdd) /\ c \in DOMAIN pending) =>
                 /\ c \in DOMAIN pending'
                 /\ pending'[c] = [State |-> StateWaitingMedicine, Medicine |-> <<>>,
                                   Hour |-> 0, Minute |-> 0, MsgID |-> 0]]_vars

\* /add arrived while the dialog waited for the time, and the entry is a fresh one
C16_Witness ==
    /\ ev.kind = "message" /\ IsCommand(ev.payload) /\ Command(ev.payload) = CmdAdd
    /\ ev.state = StateWaitingMinute
    /\ ev.chatID \in DOMAIN pending /\ pending[ev.chatID].Medicine = <<>>

\* a step in which user c presses a button whose data starts with prefix
ButtonStep(c, prefix) ==
    /\ EventStep
    /\ ev'.chatID = c /\ ev'.kind = "callback" /\ HasPrefix(ev'.payload, prefix)

\* the place of a state in the order of the dialog
StateRank(state) ==
    CASE state = StateNone -> 0
      [] state = StateWaitingMedicine -> 1
      [] state = StateWaitingHour -> 2
      [] state = StateWaitingMinute -> 3
      [] state = StateWaitingCourse -> 4
      [] state = StateWaitingCustomCourse -> 5

\* the step changes the dialog of user c or stores a reminder
Applied(c) ==
    \/ reminders' /= reminders
    \/ (c \in DOMAIN pending) /= (c \in DOMAIN pending')
    \/ c \in DOMAIN pending /\ c \in DOMAIN pending' /\ pending'[c] /= pending[c]

\* C17: an hour button is applied only in waiting_hour, a time button only in
\* waiting_minute, a course button (preset or custom) only in waiting_course; in any
\* other state the press changes nothing, and a press never moves the dialog back to
\* an earlier waiting state.
C17_OnlyFromSourceState ==
    [][\A c \in ChatIDs :
          /\ (ButtonStep(c, PrefHour) /\ Applied(c)) => ev'.state = StateWaitingHour
          /\ (ButtonStep(c, PrefTime) /\ Applied(c)) => ev'.state = StateWaitingMinute
          /\ (ButtonStep(c, PrefCourse) /\ Applied(c)) => ev'.state = StateWaitingCourse
          /\ (EventStep /\ ev'.chatID = c /\ ev'.kind = "callback"
                /\ c \in DOMAIN pending /\ c \in DOMAIN pending') =>
                 StateRank(pending'[c].State) >= StateRank(pending[c].State)]_vars

-----------------------------------------------------------------------------
(* What the dialog writes to the repository *)

\* a step of the dialog of user c: /add, a text, or a button of the dialog
DialogStep(c) ==
    \/ CommandStep(c, CmdAdd)
    \/ EventStep /\ ev'.chatID = c /\ ev'.kind = "message" /\ ~IsCommand(ev'.payload)
    \/ ButtonStep(c, PrefHour) \/ ButtonStep(c, PrefTime) \/ ButtonStep(c, PrefCourse)

\* the final transition: a preset length, or a valid custom length
FinalStep(c) ==
    \/ ButtonStep(c, PrefCourse) /\ ev'.payload /= PrefCourse \o DataCustom
    \/ /\ EventStep /\ ev'.chatID = c /\ ev'.kind = "message"
       /\ ev'.state = StateWaitingCustomCourse /\ DaysOf(ev'.payload) /= {}

\* C18 as it is stated: add and every step of the dialog before the final course
\* selection leave the users and the reminders of the repository unchanged.
C18_NothingWritten ==
    [][\A c \in ChatIDs :
          (DialogStep(c) /\ ~FinalStep(c)) => users' = users /\ reminders' = reminders]_vars

\* C18, amended: the steps before the final course selection leave the reminders
\* and the rows of the users unchanged, except that add registers a user who has no
\* row yet (active, without reminders); no step before the final one changes a row
\* that exists.
C18_OnlyRegisters ==
    [][\A c \in ChatIDs :
          (DialogStep(c) /\ ~FinalStep(c)) =>
              /\ reminders' = reminders
              /\ \A k \in DOMAIN users : k \in DOMAIN users' /\ users'[k] = users[k]
              /\ IF CommandStep(c, CmdAdd)
                   THEN /\ DOMAIN users' = DOMAIN users \cup {c}
                        /\ c \notin DOMAIN users => users'[c]
                   ELSE users' = users]_vars

\* a user who had stopped is in a dialog, past the time selection, and nothing of
\* the repository has changed
C18_Witness ==
    \E c \in ChatIDs :
        /\ Len(hist[c]) = 4 /\ StateOf(pending, c) = StateWaitingCourse
        /\ c \in DOMAIN users /\ ~users[c]
        /\ reminders = {}

-----------------------------------------------------------------------------
(* Properties of cancel and of the buttons pressed without a dialog *)

\* the answer of the step tells the user that the press is refused: start again
ToldToRestart(c) == \E i \in 1..Len(out') : out'[i] = <<c, "RetryAdd">>

\* C19: in every state of the dialog a press of cancel leaves the user without an
\* entry in pending, stores no reminder, deletes the prompt and confirms; and a
\* button of the dialog that is pressed after the cancel, while the user has no
\* dialog, is refused and stores no reminder.
C19_CancelEndsDialog ==
    [][\A c \in ChatIDs :
          /\ (EventStep /\ ev'.chatID = c /\ ev'.kind = "callback"
                /\ ev'.payload = DataCancel) =>
                 /\ c \notin DOMAIN pending'
                 /\ reminders' = reminders
                 /\ out' = <<<<c, "DeleteMessage">>, <<c, "Cancelled">>>>
          /\ ((ButtonStep(c, PrefHour) \/ ButtonStep(c, PrefTime) \/ ButtonStep(c, PrefCourse))
                /\ c \notin DOMAIN pending) =>
                 /\ reminders' = reminders
                 /\ pending' = pending
                 /\ ToldToRestart(c)]_vars

\* user c has no entry in pending, or one without a name
NoName(c) == c \notin DOMAIN pending \/ pending[c].Medicine = <<>>

\* a step in which a text of user c is taken as the length of a custom course
DaysTextStep(c) ==
    /\ EventStep
    /\ ev'.chatID = c /\ ev'.kind = "message" /\ ~IsCommand(ev'.payload)
    /\ ev'.state = StateWaitingCustomCourse

\* a step in which user c presses an hour, a time or a preset course button
SelectionStep(c) ==
    \/ ButtonStep(c, PrefHour) \/ ButtonStep(c, PrefTime)
    \/ ButtonStep(c, PrefCourse) /\ ev'.payload /= PrefCourse \o DataCustom

C21_RefusalResets ==
    [][\A c \in ChatIDs :
          ((SelectionStep(c) \/ DaysTextStep(c)) /\ NoName(c) /\ ToldToRestart(c)) =>
              c \notin DOMAIN pending']_vars

-----------------------------------------------------------------------------
(* Properties of the name of the medicine *)

\* the text has nothing but white space
Blank(text) == \A i \in 1..Len(text) : IsSpace(text[i])

\* the texts that are text without the white space at its two ends
Trimmed(text) ==
    {t \in {SubSeq(text, i, j) : i \in 1..Len(text), j \in 1..Len(text)} :
        /\ t /= <<>> /\ ~IsSpace(t[1]) /\ ~IsSpace(t[Len(t)])
        /\ \E i \in 1..(Len(text) - Len(t) + 1) :
              /\ t = SubSeq(text, i, i + Len(t) - 1)
              /\ Blank(SubSeq(text, 1, i - 1))
              /\ Blank(SubSeq(text, i + Len(t), Len(text)))}

\* C22: in waiting_medicine a text that is empty or white space only is answered
\* with a new prompt and leaves the entry as it is; any other text that is no
\* command is stored, trimmed, as the name, and the dialog waits for the hour.
C22_NameInput ==
    [][\A c \in ChatIDs :
          (/\ EventStep
           /\ ev'.chatID = c /\ ev'.kind = "message" /\ ~IsCommand(ev'.payload)
           /\ ev'.state = StateWaitingMedicine) =>
              /\ reminders' = reminders
              /\ IF Blank(ev'.payload)
                   THEN /\ pending' = pending
                        /\ out' = <<<<c, "EmptyName">>>>
                   ELSE /\ c \in DOMAIN pending'
                        /\ pending'[c].State = StateWaitingHour
                        /\ Trimmed(ev'.payload) = {pending'[c].Medicine}
                        /\ pending'[c].Hour = pending[c].Hour
                        /\ pending'[c].Minute = pending[c].Minute
                        /\ \A k \in DOMAIN pending \ {c} :
                              k \in DOMAIN pending' /\ pending'[k] = pending[k]]_vars

\* a name of white space only was refused and the dialog still waits for the name
C22_Witness ==
    /\ ev.kind = "message" /\ ev.state = StateWaitingMedicine
    /\ ev.payload = <<" ", " ">>
    /\ out = <<<<ev.chatID, "EmptyName">>>>
    /\ StateOf(pending, ev.chatID) = StateWaitingMedicine

-----------------------------------------------------------------------------
(* Properties of the stored reminders *)

\* C23: whatever messages and callback data arrive, malformed hour, time and course
\* data included, every stored reminder has a name that is not empty, an hour from
\* 0 to 23, a minute of 0, 15, 30 or 45, course_days 0 or from 1 to 365, and
\* doses_taken that is not negative.
C23_StoredWellFormed ==
    \A row \in reminders :
        /\ row.medicine /= <<>>
        /\ row.hour \in 0..23
        /\ row.minute \in {0, 15, 30, 45}
        /\ row.course_days = 0 \/ row.course_days \in MinCourseDays..MaxCourseDays
        /\ row.doses_taken >= 0

-----------------------------------------------------------------------------
(* Properties of the remembered slot *)

\* some reminder of an active user is due at time t
SomeDue(t) == \E c \in ChatIDs : DueOf(c, t) /= {}

\* a turn of the loop of the scheduler
TickStep == spc = "wait" /\ SchedStep

\* a turn of the loop has sent for the minute the clock shows
FiredThisSlot == tick.obs = now /\ tick.slot /= <<>>

\* the marks of the quarters of an hour that the clock visits
SlotTimes == {t \in QueryTimes : ~OffMark(t[2])}

\* C24: the remembered slot never suppresses a new slot.  A tick at a minute that is
\* no quarter of an hour sends nothing and clears the remembered slot; a tick at a
\* quarter of an hour for which nothing was sent yet, with reminders due, delivers
\* them, whatever slot is remembered; and with a ticker served every minute, every
\* slot in which an active user has a due reminder is fired.
C24_NewSlotFires ==
    /\ [][(TickStep /\ OffMark(now[2])) =>
             /\ lastSentTime' = <<>>
             /\ spc' = "wait" /\ tick'.outcome = "offmark"
             /\ reminders' = reminders /\ api' = api]_vars
    /\ [][(TickStep /\ ~OffMark(now[2]) /\ SomeDue(now) /\ ~FiredThisSlot) =>
             /\ spc' = "send" /\ tick'.outcome = "fired"
             /\ lastSentTime' = CurrentTime(now[1], now[2])
             /\ \A c \in ChatIDs :
                   IF DueOf(c, now) = {} THEN c \notin DOMAIN due'
                   ELSE c \in DOMAIN due' /\
                        {due'[c][i] : i \in 1..Len(due'[c])} = {AsReminder(row) : row \in DueOf(c, now)}]_vars
    /\ \A t \in SlotTimes :
          (now = t /\ tick.obs /= t /\ SomeDue(t)) ~>
              \/ tick.obs = t /\ tick.outcome = "fired"
              \/ now = t /\ ~SomeDue(t)

\* the slot of 9:30 fires, the slot of 9:15 and the minute 9:16 having gone by
C24_Witness ==
    /\ spc = "send" /\ tick.outcome = "fired" /\ tick.obs = <<9, 30>>
    /\ lastSentTime = CurrentTime(9, 30)
    /\ \E c \in DOMAIN due : due[c] /= <<>>

\* the reminders that the loop is about to send are those due at the minute of the clock
SendsTheDue ==
    \A c \in ChatIDs :
        IF DueOf(c, now) = {} THEN c \notin DOMAIN due'
        ELSE c \in DOMAIN due' /\
             {due'[c][i] : i \in 1..Len(due'[c])} = {AsReminder(row) : row \in DueOf(c, now)}

\* the last turn of the loop saw this minute and found nothing due
SkippedThisSlot == spc = "wait" /\ tick.obs = now /\ tick.outcome = "empty"

\* C25: a tick in a slot that finds nothing due, or whose query fails, leaves the
\* remembered slot as it was, so a reminder that comes to be due for the slot before a
\* later tick of the same minute is delivered by that tick (unless its query fails,
\* and then the remembered slot is left as it was once more).
C25_EmptyTickKeepsMarker ==
    /\ [][(TickStep /\ tick'.outcome = "empty") => lastSentTime' = lastSentTime]_vars
    /\ [][(TickStep /\ SkippedThisSlot /\ SomeDue(now)) =>
             \/ /\ tick'.outcome = "fired" /\ spc' = "send"
                /\ lastSentTime' = CurrentTime(now[1], now[2])
                /\ SendsTheDue
             \/ /\ tick'.outcome = "empty" /\ spc' = "wait"
                /\ lastSentTime' = lastSentTime]_vars

\* the tick of 9:30 found nothing due for the stopped user 2, who has come back since
C25_Witness ==
    /\ SkippedThisSlot /\ now = <<9, 30>>
    /\ ev.kind = "message" /\ ev.chatID = 2 /\ IsCommand(ev.payload) /\ Command(ev.payload) = CmdStart
    /\ DueOf(2, now) /= {}
    /\ ~AlreadySent(CurrentTime(now[1], now[2]), lastSentTime)

-----------------------------------------------------------------------------
(* Properties of the count of doses *)

\* the number of messages with the button of reminder id that the scheduler has sent
\* to user c in the minute the clock shows, those whose send failed included
SendsOf(c, id) == Cardinality({i \in 1..Len(tick.slot) : tick.slot[i] = <<c, id>>})

\* C26: a notification that was delivered is counted at most once: whatever events
\* arrive, a button pressed twice or a callback replayed included, doses_taken of a
\* reminder is never more than the number of notifications sent for it.  (Under
\* SpecReplay the clock stands at the first minute and no dose is counted at the
\* start, so the sends of the minute are all the sends there were.)
C26_CountedOncePerDelivery ==
    \A row \in reminders : row.doses_taken <= SendsOf(row.chat_id, row.id)

-----------------------------------------------------------------------------
(* Properties of the congratulation *)

\* the calls of the notifier of the step hold a congratulation
Congratulates == \E i \in 1..Len(out') : out'[i][2] = "Congrats"

-----------------------------------------------------------------------------
(* Properties of the calls that do not return *)

\* C28: a call of the notifier or of the repository that never returns does not
\* stall the scheduler: the loop goes on to the pairs that remain and comes to its
\* next tick.
C28_HangDoesNotStall == (spc = "hung") ~> (spc = "wait")

-----------------------------------------------------------------------------
(* Properties of the failures of the repository *)

\* the calls of the notifier of the step hold a message of this kind
Tells(kind) == \E i \in 1..Len(out') : out'[i][2] = kind

\* the step leaves the repository as it is
RepositoryUnchanged == users' = users /\ reminders' = reminders /\ nextID' = nextID

\* the final step of the dialog of user c stores no reminder: AddReminder has failed
AddFailed(c) == FinalStep(c) /\ ~NoName(c) /\ reminders' = reminders

\* user c has reminders and /list does not show them: GetReminders has failed
ListFailed(c) ==
    /\ CommandStep(c, CmdList)
    /\ \E row \in reminders : row.chat_id = c
    /\ ~Tells("List")

\* user c presses del_<id> of a reminder of theirs and it is still there: DeleteReminder
\* has failed
DeleteFailed(c) ==
    /\ ButtonStep(c, PrefDel)
    /\ \E row \in reminders \cap reminders' :
          row.chat_id = c /\ ev'.payload = PrefDel \o Itoa(row.id)

\* C29: when the call of the repository of an add (the final step), of a list or of a
\* delete fails, the user is sent a message of failure and no confirmation, and the
\* repository is as it was.
C29_FailureReported ==
    [][\A c \in ChatIDs :
          /\ AddFailed(c) =>
                out' = <<<<c, "SaveError">>>> /\ RepositoryUnchanged
          /\ ListFailed(c) =>
                out' = <<<<c, "ListError">>>> /\ RepositoryUnchanged
          /\ DeleteFailed(c) =>
                ~Tells("Deleted") /\ RepositoryUnchanged]_vars

-----------------------------------------------------------------------------
(* Properties of IncrementDoseTaken on a reminder that is not there *)

\* user c has no reminder id to count a dose of: there is no such row (it was never
\* created, or it was deleted), or its course is completed
NothingToCount(c, id) ==
    \A row \in reminders :
        (row.chat_id = c /\ row.id = id) => IncrementCompleted(row.course_days, row.doses_taken)

\* C30: IncrementDoseTaken for a user and an id that do not exist, because the reminder
\* was never created, was deleted or has completed its course, returns the empty name
\* and completed = false and leaves the repository as it is; the handler sends no
\* confirmation and no congratulation (it only deletes the message of the button).
C30_NothingToCount ==
    [][\A c \in ChatIDs, id \in SchedIDs :
          (TakenStep(c, id) /\ NothingToCount(c, id)) =>
              /\ RepositoryUnchanged
              /\ evpc' = Idle
              /\ out' = <<<<c, "DeleteMessage">>>>]_vars

-----------------------------------------------------------------------------
(* Properties of the active flag in the dialog *)

\* the final step of the dialog of user c stores a reminder
Completes(c) == FinalStep(c) /\ reminders' /= reminders

\* a step in which user c presses the button cancel
CancelStep(c) == EventStep /\ ev'.chatID = c /\ ev'.kind = "callback" /\ ev'.payload = DataCancel

-----------------------------------------------------------------------------
(* Properties of the lock of b.pending *)

-----------------------------------------------------------------------------
(* Properties of the name in b.pending *)

\* C33: an entry of b.pending in waiting_hour, waiting_minute, waiting_course or
\* waiting_custom_course has a name that is not empty, whatever events arrive, stale
\* button presses included.
C33_NameOnceAsked ==
    \A c \in DOMAIN pending :
        pending[c].State \in {StateWaitingHour, StateWaitingMinute, StateWaitingCourse,
                              StateWaitingCustomCourse} =>
            pending[c].Medicine /= <<>>

-----------------------------------------------------------------------------
(* Properties of a slot that has fired *)

\* reminder id of user c is among those the firing tick has found due
InSnapshot(c, id) ==
    c \in DOMAIN tick.snap /\ \E i \in 1..Len(tick.snap[c]) : tick.snap[c][i].ID = id

\* a message for reminder id of user c was sent, or tried, in the minute of the clock
TriedThisSlot(c, id) == \E i \in 1..Len(tick.slot) : tick.slot[i] = <<c, id>>

\* C34: the scheduler remembers the slot, not the reminders.  Once a tick has fired
\* for a slot, every later tick of the same minute sends nothing, also when a reminder
\* has come to be due for the slot since (its owner is active again) and when a send
\* of the firing tick has failed: the sends of a slot are those of the reminders that
\* the firing tick found due, each tried once.
C34_DedupePerSlot ==
    /\ [][(TickStep /\ ~OffMark(now[2]) /\ FiredThisSlot) =>
             /\ tick'.outcome = "dedupe" /\ spc' = "wait"
             /\ tick'.slot = tick.slot
             /\ lastSentTime' = lastSentTime
             /\ reminders' = reminders]_vars
    /\ [][SendStep =>
             /\ InSnapshot(SendOf[1], SendOf[2])
             /\ ~TriedThisSlot(SendOf[1], SendOf[2])]_vars

\* the slot has fired without user 2, who is active again and has a reminder due that
\* was not sent; the tick after that has sent nothing
C34_Witness ==
    /\ spc = "wait" /\ tick.outcome = "dedupe" /\ FiredThisSlot
    /\ \E row \in DueOf(2, now) : ~TriedThisSlot(2, row.id)

-----------------------------------------------------------------------------
(* Properties of the sends and the reminders that go away *)

\* C35: however the scheduler and the loop of the updates interleave, the scheduler
\* sends a notification only for a reminder that is stored at the moment of the send:
\* one that its owner has deleted, or that was removed as completed, after the query of
\* the tick is not delivered.
C35_SendsOnlyStored ==
    [][SendStep =>
          \E row \in reminders : row.chat_id = SendOf[1] /\ row.id = SendOf[2]]_vars

-----------------------------------------------------------------------------
(* Properties of the texts that are no commands *)

\* a step in which a text of user c that is no command is taken
TextStep(c) == EventStep /\ ev'.chatID = c /\ ev'.kind = "message" /\ ~IsCommand(ev'.payload)

\* the states in which the user is to press a button
ButtonStates == {StateWaitingHour, StateWaitingMinute, StateWaitingCourse}

\* C36: a text that is no command never discards an entry of b.pending (the entry goes
\* only when a number of days completes the dialog).  In waiting_medicine every such
\* text, the labels of the main keyboard included, is taken as the name and no action
\* is run; in waiting_hour, waiting_minute and waiting_course the labels list, stop
\* and start run their action and leave the entry as it is, and the label add alone
\* puts a fresh entry in its place.
C36_TextKeepsDialog ==
    [][\A c \in ChatIDs :
          TextStep(c) =>
              /\ (c \in DOMAIN pending /\ c \notin DOMAIN pending') => Completes(c)
              /\ ev'.state = StateWaitingMedicine =>
                    /\ RepositoryUnchanged
                    /\ IF Blank(ev'.payload)
                         THEN pending' = pending /\ out' = <<<<c, "EmptyName">>>>
                         ELSE /\ c \in DOMAIN pending' /\ pending'[c].State = StateWaitingHour
                              /\ Trimmed(ev'.payload) = {pending'[c].Medicine}
                              /\ out' = <<<<c, "AskHour">>>>
              /\ ev'.state \in ButtonStates =>
                    /\ reminders' = reminders
                    /\ ev'.payload = LabelAdd =>
                          pending' = [pending EXCEPT ![c] = NewPending] /\ out' = <<<<c, "AskMedicine">>>>
                    /\ ev'.payload /= LabelAdd => pending' = pending
                    /\ ev'.payload = LabelList => (Tells("List") \/ Tells("ListEmpty")) /\ users' = users
                    /\ ev'.payload = LabelStop =>
                          /\ out' = <<<<c, "Stopped">>>>
                          /\ c \in DOMAIN users => ~users'[c]
                    /\ ev'.payload = LabelStart =>
                          /\ out' = <<<<c, "Welcome">>>>
                          /\ c \in DOMAIN users' /\ users'[c]]_vars

\* user 1 has typed the label list as the name, and the label stop when asked for the
\* hour: the name is the label, the user is stopped and the entry is as it was
C36_Witness ==
    /\ ev.chatID = 1 /\ ev.kind = "message" /\ ev.payload = LabelStop /\ ev.state = StateWaitingHour
    /\ 1 \in DOMAIN pending /\ pending[1].State = StateWaitingHour /\ pending[1].Medicine = LabelList
    /\ 1 \in DOMAIN users /\ ~users[1]

-----------------------------------------------------------------------------
(* Properties of ownership: DeleteReminder and IncrementDoseTaken name a row by  *)
(* id and chat_id                                                                *)

\* a step in which user c presses del_<id>: handleDeleteReminder runs
DelStep(c, id) ==
    /\ EventStep
    /\ ev'.chatID = c /\ ev'.kind = "callback" /\ ev'.payload = PrefDel \o Itoa(id)

\* the stored reminders with another id
OtherRows(rems, id) == {row \in rems : row.id /= id}

\* the stored reminders of the other users
ForeignRows(rems, c) == {row \in rems : row.chat_id /= c}

\* C37: a deletion or an acknowledgement by a user changes no reminder of another
\* user: with the id of another user's reminder it changes nothing, and the
\* acknowledgement finds no row, so that the handler only removes the message; every
\* deletion and acknowledgement, the removal after completion included, leaves the
\* reminders with another id as they were.
C37_OwnRemindersOnly ==
    [][/\ \A c \in ChatIDs, id \in SchedIDs :
             (TakenStep(c, id) \/ DelStep(c, id)) =>
                 /\ OtherRows(reminders', id) = OtherRows(reminders, id)
                 /\ ForeignRows(reminders', c) = ForeignRows(reminders, c)
                 /\ (\A row \in reminders : row.id = id => row.chat_id /= c) =>
                        /\ reminders' = reminders
                        /\ TakenStep(c, id) =>
                               out' = <<<<c, "DeleteMessage">>>> /\ evpc' = Idle
       /\ CompletedReturn =>
             /\ OtherRows(reminders', evpc.reminderID) = OtherRows(reminders, evpc.reminderID)
             /\ ForeignRows(reminders', evpc.chatID) = ForeignRows(reminders, evpc.chatID)]_vars

\* user 1 has pressed del_2, and reminder 2 is of user 2: the handler answers as for
\* a deletion, and the reminder is stored as it was
C37_Witness ==
    /\ ev.chatID = 1 /\ ev.kind = "callback" /\ ev.payload = PrefDel \o Itoa(2)
    /\ out = <<<<1, "DeleteMessage">>, <<1, "Deleted">>>>
    /\ \E row \in reminders : row.id = 2 /\ row.chat_id = 2 /\ row.doses_taken = 0

-----------------------------------------------------------------------------
(* Properties of the fields of a stored reminder *)

\* the fields of a reminder that are set when it is created
Created(row) == <<row.id, row.chat_id, row.medicine, row.hour, row.minute, row.course_days>>

\* a step that may remove a reminder: a deletion, or the removal after completion
RemovalStep == CompletedReturn \/ \E c \in ChatIDs, id \in 1..MaxReminders : DelStep(c, id)

====
